---- MODULE Spec2Model ----
(***************************************************************************)
(* Verification model of the pyflexplot layout and labelling engine:       *)
(*   src/src/pyflexplot/plot.py   FlexPlotConcentration, FlexAxesTextBox,  *)
(*                                BoxLocation                              *)
(*   src/src/pyflexplot/plots.py  create_plot_config, colors_flexplot,     *)
(*                                fill_box_*, plot_add_markers             *)
(*                                                                         *)
(* Floating-point quantities are modelled as exact rationals [n, d] in     *)
(* lowest terms (d > 0), so equal values are equal records.  Python        *)
(* exceptions are modelled as data: an operation that raises leaves the    *)
(* name of the exception in its result.                                    *)
(***************************************************************************)
EXTENDS Integers, Sequences, FiniteSets, TLC

VARIABLES
    pc,            \* position of the operation under check
    fig_aspect,    \* fig.get_window_extent(): width/height of the figure
    ax_map,        \* position [x, y, w, h] of the map axes (figure coords)
    box_args,      \* arguments of fig_add_text_boxes (None before the call)
    axs_box,       \* self.axs_box: rectangles of the three text boxes
    loc,           \* the loc argument handed to BoxLocation(loc)
    box_loc,       \* the BoxLocation object built from it, or the exception
    box,           \* a FlexAxesTextBox: its size and unit distances
    texts,         \* the ax.text calls made on the box so far, in order
    call,          \* the arguments of the operation made on the box
    err,           \* the exception the operation raised, or None
    levels,        \* self.levels of the concentration plot
    extend,        \* self.extend
    colors,        \* self.colors
    labels,        \* the legend labels _format_level_ranges returned
    palette,       \* a call of colors_flexplot: arguments and outcome
    config,        \* a call of create_plot_config: setup and outcome
    plot,          \* the BoxedPlot being rendered: its field and its flags
    draws,         \* the draw calls made on the map and the boxes, in order
    warnings,      \* the warnings emitted while rendering
    baseline,      \* _show_baseline and the two _baseline_kwargs dicts
    baseline_calls,\* the show_baseline calls made on the box, in order
    axhlines,      \* the ax.axhline calls made on the box, in order
    run,           \* a FlexPlotter.run or a save: its arguments and position
    figs,          \* the figures created so far: "open" or "closed"
    files,         \* the files written so far: path and format, in order
    yielded,       \* what run or plot_fields has yielded, in order
    words          \* the words table WORDS: its languages, the active one

layout_vars == <<fig_aspect, ax_map, box_args, axs_box>>
loc_vars    == <<loc, box_loc>>
text_vars   == <<box, texts, call, err>>
level_vars  == <<levels, extend, colors, labels, palette, config>>

render_vars == <<plot, draws, warnings>>

baseline_vars == <<baseline, baseline_calls, axhlines>>

run_vars == <<run, figs, files, yielded, words>>

vars == <<pc, layout_vars, loc_vars, text_vars, level_vars, render_vars,
          baseline_vars, run_vars>>

None == "None"

\* the parts of the state an operation under check does not touch
LayoutIdle ==
    fig_aspect = None /\ ax_map = None /\ box_args = None /\ axs_box = <<>>
LocIdle == loc = None /\ box_loc = None
TextIdle == box = None /\ texts = <<>> /\ call = None /\ err = None
LevelIdle ==
    /\ levels = <<>> /\ extend = None /\ colors = <<>> /\ labels = <<>>
    /\ palette = None /\ config = None
RenderIdle == plot = None /\ draws = <<>> /\ warnings = <<>>
BaselineIdle == baseline = None /\ baseline_calls = <<>> /\ axhlines = <<>>
RunIdle ==
    /\ run = None /\ figs = <<>> /\ files = <<>> /\ yielded = <<>>
    /\ words = None

-----------------------------------------------------------------------------
(* Exact rational arithmetic standing in for Python floats.                *)

Abs(i) == IF i < 0 THEN -i ELSE i

RECURSIVE GCD(_, _)
GCD(a, b) == IF b = 0 THEN a ELSE GCD(b, a % b)

\* n/d in lowest terms with a positive denominator (d # 0)
R(n, d) ==
    LET s == IF d < 0 THEN -1 ELSE 1
        g == GCD(Abs(n), Abs(d))
    IN  [n |-> (s * n) \div g, d |-> (s * d) \div g]

RAdd(a, b) == R(a.n * b.d + b.n * a.d, a.d * b.d)
RSub(a, b) == R(a.n * b.d - b.n * a.d, a.d * b.d)
RMul(a, b) == R(a.n * b.n, a.d * b.d)
RDiv(a, b) == R(a.n * b.d, a.d * b.n)
RLt(a, b)  == a.n * b.d < b.n * a.d
RLe(a, b)  == a.n * b.d <= b.n * a.d
RZero == R(0, 1)
ROne  == R(1, 1)
RHalf == R(1, 2)

-----------------------------------------------------------------------------
(* FlexPlotConcentration.fig_add_text_boxes (plot.py 273-337)              *)

Rect(x, y, w, h) == [x |-> x, y |-> y, w |-> w, h |-> h]

\* x0_map, y0_map = 0.05, 0.05
x0_map == R(5, 100)
y0_map == R(5, 100)

\* h_rel_box_top = 0.4
h_rel_box_top == R(4, 10)

\* w_box = w_rel*w_map ; h_box = h_rel*h_map
w_box_of(w_rel, w_map) == RMul(w_rel, w_map)
h_box_of(h_rel, h_map) == RMul(h_rel, h_map)

\* pad_hor = pad_hor_rel*w_map ; pad_ver = pad_hor*fig_aspect
pad_hor_of(pad_hor_rel, w_map) == RMul(pad_hor_rel, w_map)
pad_ver_of(pad_hor, aspect)    == RMul(pad_hor, aspect)

\* first FlexAxesTextBox rectangle: the box above the map
rect_top(w_map, h_map, w_box, h_box, pad_hor, pad_ver) ==
    Rect(x0_map,
         RAdd(RAdd(y0_map, pad_ver), h_map),
         RAdd(RAdd(w_map, pad_hor), w_box),
         h_box)

\* a slip that forgets "1.0 -" in the y-start of the upper right box
rect_right_top_swapped(w_map, h_map, w_box, pad_hor, pad_ver) ==
    Rect(RAdd(RAdd(x0_map, pad_hor), w_map),
         RAdd(RAdd(y0_map, RMul(RHalf, pad_ver)), RMul(h_rel_box_top, h_map)),
         w_box,
         RSub(RMul(h_rel_box_top, h_map), RMul(RHalf, pad_ver)))

\* second rectangle: the upper box to the right of the map
rect_right_top(w_map, h_map, w_box, pad_hor, pad_ver) ==
    Rect(RAdd(RAdd(x0_map, pad_hor), w_map),
         RAdd(RAdd(y0_map, RMul(RHalf, pad_ver)),
              RMul(RSub(ROne, h_rel_box_top), h_map)),
         w_box,
         RSub(RMul(h_rel_box_top, h_map), RMul(RHalf, pad_ver)))

\* a slip that gives the lower right box the full 60% of the map height
rect_right_bottom_nopad(w_map, h_map, w_box, pad_hor, pad_ver) ==
    Rect(RAdd(RAdd(x0_map, pad_hor), w_map),
         y0_map,
         w_box,
         RMul(RSub(ROne, h_rel_box_top), h_map))

\* third rectangle: the lower box to the right of the map
rect_right_bottom(w_map, h_map, w_box, pad_hor, pad_ver) ==
    Rect(RAdd(RAdd(x0_map, pad_hor), w_map),
         y0_map,
         w_box,
         RSub(RMul(RSub(ROne, h_rel_box_top), h_map), RMul(RHalf, pad_ver)))

\* the np.array of the three boxes, in the order of the source
text_box_rects(w_map, h_map, aspect, h_rel, w_rel, pad_hor_rel) ==
    LET w_box   == w_box_of(w_rel, w_map)
        h_box   == h_box_of(h_rel, h_map)
        pad_hor == pad_hor_of(pad_hor_rel, w_map)
        pad_ver == pad_ver_of(pad_hor, aspect)
    IN  << rect_top(w_map, h_map, w_box, h_box, pad_hor, pad_ver),
           rect_right_top(w_map, h_map, w_box, pad_hor, pad_ver),
           rect_right_bottom(w_map, h_map, w_box, pad_hor, pad_ver) >>

\* Inputs of the layout: the realized map size after the canvas is frozen,
\* the figure's aspect ratio, and the three fractions of the call.
MapWidths   == {R(1, 2), R(4, 5)}
MapHeights  == {R(1, 20), R(3, 10), R(3, 5)}
FigAspects  == {R(4, 3), R(2, 1)}
HRels       == {R(1, 10), R(1, 2)}
WRels       == {R(1, 4), R(9, 10)}
PadHorRels  == {R(3, 200), R(1, 10), R(1, 2)}

\* The map axes as add_subplot leaves it: realized size, centred
InitLayout ==
    /\ pc = "new"
    /\ fig_aspect \in FigAspects
    /\ \E w \in MapWidths, h \in MapHeights :
          ax_map = Rect(RMul(RHalf, RSub(ROne, w)),
                        RMul(RHalf, RSub(ROne, h)), w, h)
    /\ box_args = None
    /\ axs_box = <<>>
    /\ LocIdle /\ TextIdle /\ LevelIdle /\ RenderIdle /\ BaselineIdle /\ RunIdle

\* fig_add_text_boxes(h_rel, w_rel, pad_hor_rel)
FigAddTextBoxes(h_rel, w_rel, pad_hor_rel) ==
    /\ pc = "new"
    /\ box_args' = [h_rel |-> h_rel, w_rel |-> w_rel,
                    pad_hor_rel |-> pad_hor_rel]
    /\ ax_map' = Rect(x0_map, y0_map, ax_map.w, ax_map.h)
    /\ axs_box' = text_box_rects(ax_map.w, ax_map.h, fig_aspect,
                                 h_rel, w_rel, pad_hor_rel)
    /\ pc' = "boxes"
    /\ UNCHANGED <<run_vars, render_vars, baseline_vars, fig_aspect, loc_vars,
                   text_vars, level_vars>>

NextLayout ==
    \E h_rel \in HRels, w_rel \in WRels, pad_hor_rel \in PadHorRels :
        FigAddTextBoxes(h_rel, w_rel, pad_hor_rel)

SpecLayout == InitLayout /\ [][NextLayout]_vars

-----------------------------------------------------------------------------
(* Layout claims                                                           *)

PositiveDims(r) == RLt(RZero, r.w) /\ RLt(RZero, r.h)

\* two rectangles share interior points
Overlap(a, b) ==
    /\ RLt(a.x, RAdd(b.x, b.w)) /\ RLt(b.x, RAdd(a.x, a.w))
    /\ RLt(a.y, RAdd(b.y, b.h)) /\ RLt(b.y, RAdd(a.y, a.h))

\* map panel, top box, right-top box, right-bottom box
LayoutRects == <<ax_map>> \o axs_box

PairwiseDisjoint(rs) ==
    \A i, j \in 1..Len(rs) : i < j => ~Overlap(rs[i], rs[j])

CurPadHor == pad_hor_of(box_args.pad_hor_rel, ax_map.w)
CurPadVer == pad_ver_of(CurPadHor, fig_aspect)

\* the vertical padding leaves room for the upper right box:
\* pad_ver < 0.8 * h_map, i.e. 0.4*h_map - 0.5*pad_ver > 0
PadFits == RLt(CurPadVer, RMul(R(8, 10), ax_map.h))

\* C1 as stated: for all fractions in (0,1) and every padding > 0 the four
\* rectangles built by fig_add_text_boxes have positive width and height
\* and are pairwise non-overlapping.
C1_Original ==
    pc = "boxes" =>
        /\ \A i \in 1..4 : PositiveDims(LayoutRects[i])
        /\ PairwiseDisjoint(LayoutRects)

\* C1 (amended): whenever in addition the vertical padding
\* pad_hor_rel*w_map*fig_aspect is below 0.8*h_map, the map panel and the
\* three text boxes have positive width and height and do not overlap.
C1_LayoutDisjoint ==
    (pc = "boxes" /\ PadFits) =>
        /\ \A i \in 1..4 : PositiveDims(LayoutRects[i])
        /\ PairwiseDisjoint(LayoutRects)

\* a layout with a non-default padding that still fits
C1_Witness ==
    /\ pc = "boxes"
    /\ PadFits
    /\ box_args.pad_hor_rel = R(1, 10)
    /\ box_args.w_rel = R(9, 10)

RightGap == RSub(axs_box[2].y, RAdd(axs_box[3].y, axs_box[3].h))

RightColumnX ==
    /\ axs_box[2].x = RAdd(RAdd(ax_map.x, ax_map.w), CurPadHor)
    /\ axs_box[3].x = axs_box[2].x
    /\ axs_box[2].w = RMul(box_args.w_rel, ax_map.w)
    /\ axs_box[3].w = axs_box[2].w

\* C2 as stated (on a layout whose padding fits): both right boxes start at map x + map width + pad_hor with
\* width w_rel*w_map, the gap between them is half the vertical padding, and
\* right-top height + right-bottom height + half-padding = map height.
C2_Original ==
    (pc = "boxes" /\ PadFits) =>
        /\ RightColumnX
        /\ RightGap = RMul(RHalf, CurPadVer)
        /\ RAdd(RAdd(axs_box[2].h, axs_box[3].h), RMul(RHalf, CurPadVer))
              = ax_map.h

\* C2 (amended): same x-start and width; the upper box takes 40% and the
\* lower box 60% of the map height, each reduced by half the vertical
\* padding, so the gap between them is the full vertical padding and
\* right-top height + right-bottom height + pad_ver = map height, the
\* column ending level with the top of the map.
C2_RightColumn ==
    pc = "boxes" =>
        /\ RightColumnX
        /\ axs_box[2].h = RSub(RMul(R(4, 10), ax_map.h), RMul(RHalf, CurPadVer))
        /\ axs_box[3].h = RSub(RMul(R(6, 10), ax_map.h), RMul(RHalf, CurPadVer))
        /\ RightGap = CurPadVer
        /\ RAdd(RAdd(axs_box[2].h, axs_box[3].h), CurPadVer) = ax_map.h
        /\ axs_box[3].y = ax_map.y
        /\ RAdd(axs_box[2].y, axs_box[2].h) = RAdd(ax_map.y, ax_map.h)

\* the default call fig_add_text_boxes() on a 12x9 figure
C2_Witness ==
    /\ pc = "boxes"
    /\ fig_aspect = R(4, 3)
    /\ box_args = [h_rel |-> R(1, 10), w_rel |-> R(1, 4),
                   pad_hor_rel |-> R(3, 200)]
    /\ PositiveDims(axs_box[2]) /\ PositiveDims(axs_box[3])

-----------------------------------------------------------------------------
(* BoxLocation (plot.py 1066-1163)                                         *)

\* Python values handed in as loc: an int or a str
PyInt(i) == [t |-> "int", v |-> i]
PyStr(s) == [t |-> "str", v |-> s]

Digit(d) == SubSeq("0123456789", d + 1, d + 1)

\* str(i) of a non-negative int: decimal digits without leading zeros
RECURSIVE IntToStr(_)
IntToStr(i) == IF i < 10 THEN Digit(i)
               ELSE IntToStr(i \div 10) \o Digit(i % 10)

\* str(self.loc)
str_of(v) == IF v.t = "int" THEN IntToStr(v.v) ELSE v.v

Raised(e) == [err |-> e, loc_y |-> None, loc_x |-> None]

\* _eval_loc_vert: 'b' | 'c' | 't', or the ValueError it raises.  The
\* component is always a str here, so the int members 0, 1, 2 of the
\* source's tuples never match.
eval_loc_vert(s) ==
    IF s \in {"0", "b", "bottom"} THEN "b"
    ELSE IF s \in {"1", "c", "center"} THEN "c"
    ELSE IF s \in {"2", "t", "top"} THEN "t"
    ELSE "ValueError"

\* _eval_loc_horz
eval_loc_horz(s) ==
    IF s \in {"0", "l", "left"} THEN "l"
    ELSE IF s \in {"1", "c", "center"} THEN "c"
    ELSE IF s \in {"2", "r", "right"} THEN "r"
    ELSE "ValueError"

\* evaluation of the two components, the vertical one first
eval_components(sy, sx) ==
    IF eval_loc_vert(sy) = "ValueError" THEN Raised("ValueError")
    ELSE IF eval_loc_horz(sx) = "ValueError" THEN Raised("ValueError")
    ELSE [err |-> None, loc_y |-> eval_loc_vert(sy),
          loc_x |-> eval_loc_horz(sx)]

\* _prepare_loc.  The else branch reads the undefined name `line`
\* (plot.py 1104) and so raises NameError before anything is split.
prepare_loc(v) ==
    LET s == str_of(v)
    IN  IF Len(s) = 2 THEN eval_components(SubSeq(s, 1, 1), SubSeq(s, 2, 2))
        ELSE IF s = "center" THEN eval_components(s, s)
        ELSE Raised("NameError")

\* The table of the constructor's docstring (plot.py 1076-1087)
LocTable ==
    << [int |-> 0,  short |-> "bl", long |-> "bottom left",   y |-> "b", x |-> "l"],
       [int |-> 1,  short |-> "bc", long |-> "bottom center", y |-> "b", x |-> "c"],
       [int |-> 2,  short |-> "br", long |-> "bottom right",  y |-> "b", x |-> "r"],
       [int |-> 10, short |-> "cl", long |-> "center left",   y |-> "c", x |-> "l"],
       [int |-> 11, short |-> "cc", long |-> "center",        y |-> "c", x |-> "c"],
       [int |-> 12, short |-> "cr", long |-> "center right",  y |-> "c", x |-> "r"],
       [int |-> 20, short |-> "tl", long |-> "top left",      y |-> "t", x |-> "l"],
       [int |-> 21, short |-> "tc", long |-> "top center",    y |-> "t", x |-> "c"],
       [int |-> 22, short |-> "tr", long |-> "top right",     y |-> "t", x |-> "r"] >>

\* the two-digit code of a table row as a string: "00" .. "22"
TwoDigits(i) == Digit(i \div 10) \o Digit(i % 10)

\* every spelling the docstring gives for row r
FormsOf(r) == { PyInt(r.int), PyStr(TwoDigits(r.int)),
                PyStr(r.short), PyStr(r.long) }

ValidLocs == UNION { FormsOf(LocTable[k]) : k \in 1..Len(LocTable) }

\* Inputs of the constructor: ints, all two-character strings over the
\* characters the components use plus a foreign one, the long strings,
\* and words that are no location at all.
MaxLocInt == 23
LocChars == {"0", "1", "2", "b", "c", "t", "l", "r", "x"}
OtherWords == {"", "b", "nowhere", "center center", "bottom-left",
               "top left corner", "left top", "200"}

LocInputs ==
    { PyInt(i) : i \in 0..MaxLocInt }
    \cup { PyStr(a \o b) : a \in LocChars, b \in LocChars }
    \cup { PyStr(LocTable[k].long) : k \in 1..Len(LocTable) }
    \cup { PyStr(w) : w \in OtherWords }

InitLoc ==
    /\ pc = "loc"
    /\ loc \in LocInputs
    /\ box_loc = None
    /\ LayoutIdle /\ TextIdle /\ LevelIdle /\ RenderIdle /\ BaselineIdle
    /\ RunIdle

\* BoxLocation(loc): __init__ stores loc and evaluates it
BoxLocationInit ==
    /\ pc = "loc"
    /\ box_loc' = prepare_loc(loc)
    /\ pc' = "loc_done"
    /\ UNCHANGED <<run_vars, render_vars, baseline_vars, loc, layout_vars,
                   text_vars, level_vars>>

NextLoc == BoxLocationInit

SpecLoc == InitLoc /\ [][NextLoc]_vars

\* C7: for each of the nine anchors, BoxLocation built from the two-digit
\* code (int or string), the short code and the long string succeeds and
\* yields the anchor's vertical and horizontal component.
C7_Original ==
    pc = "loc_done" =>
        \A k \in 1..Len(LocTable) :
            loc \in FormsOf(LocTable[k]) =>
                /\ box_loc.err = None
                /\ box_loc.loc_y = LocTable[k].y
                /\ box_loc.loc_x = LocTable[k].x

\* C8: BoxLocation(loc) fails with the invalid-location error (ValueError)
\* for every input that is none of the forms of the table.
C8_Original ==
    (pc = "loc_done" /\ loc \notin ValidLocs) => box_loc.err = "ValueError"

-----------------------------------------------------------------------------
(* FlexAxesTextBox (plot.py 697-1063)                                      *)

\* an absent optional float argument (dx=None, dy0=None, ...)
RNone == [n |-> 0, d |-> 0]
IsNone(r) == r.d = 0

\* get_va
get_va(bl) ==
    CASE bl.loc_y = "b" -> "baseline"
      [] bl.loc_y = "c" -> "center_baseline"
      [] bl.loc_y = "t" -> "top"

\* get_ha
get_ha(bl) ==
    CASE bl.loc_x = "l" -> "left"
      [] bl.loc_x = "c" -> "center"
      [] bl.loc_x = "r" -> "right"

\* a slip that measures the top anchor from 0 like the bottom anchor
get_y0_slip(bl, dy) ==
    CASE bl.loc_y = "b" -> RAdd(RZero, dy)
      [] bl.loc_y = "c" -> RHalf
      [] bl.loc_y = "t" -> RAdd(RZero, dy)

\* get_y0
get_y0(bl, dy) ==
    CASE bl.loc_y = "b" -> RAdd(RZero, dy)
      [] bl.loc_y = "c" -> RHalf
      [] bl.loc_y = "t" -> RSub(ROne, dy)

\* get_x0
get_x0(bl, dx) ==
    CASE bl.loc_x = "l" -> RAdd(RZero, dx)
      [] bl.loc_x = "c" -> RHalf
      [] bl.loc_x = "r" -> RSub(ROne, dx)

\* unit_w_map_rel=0.01
unit_w_map_rel == R(1, 100)

\* unit distances taken as 1% of the box's own width and height
compute_unit_distances_own(w_map_fig, w_box_fig, h_box_fig) ==
    [dx |-> unit_w_map_rel, dy |-> unit_w_map_rel]

\* compute_unit_distances: both unit distances are taken from the width of
\* the reference (map) axes, divided by the box's own width and height
compute_unit_distances(w_map_fig, w_box_fig, h_box_fig) ==
    [dx |-> RDiv(RMul(unit_w_map_rel, w_map_fig), w_box_fig),
     dy |-> RDiv(RMul(unit_w_map_rel, w_map_fig), h_box_fig)]

\* FlexAxesTextBox(fig, ax_ref, rect): the reference axes' and the box's
\* own dimensions in figure coordinates, and the unit distances
FlexAxesTextBox(w_map_fig, h_map_fig, rect) ==
    LET u == compute_unit_distances(w_map_fig, rect.w, rect.h)
    IN  [w_ref |-> w_map_fig, h_ref |-> h_map_fig, w |-> rect.w, h |-> rect.h,
         dx |-> u.dx, dy |-> u.dy]

\* **kwargs of text as far as the code reads them: the alignment
\* overrides under both their names and the colour (None: not given)
NoKw == [ha |-> None, va |-> None, horizontalalignment |-> None,
         verticalalignment |-> None, color |-> None]

TextRaised(e) == [err |-> e, draw |-> None]

\* FlexAxesTextBox.text: the ax.text call it makes, or the exception.
\* A top_baseline alignment reaches the raise statement, whose message
\* reads kwargs['vs'] (plot.py 819) and fails with KeyError.
text(bx, loc_, s_, dx_, dy_, kw) ==
    LET dx == IF IsNone(dx_) THEN RZero ELSE dx_
        dy == IF IsNone(dy_) THEN RZero ELSE dy_
        bl == prepare_loc(loc_)
    IN  IF bl.err # None THEN TextRaised(bl.err)
        ELSE
          LET x  == RAdd(get_x0(bl, bx.dx), RMul(dx, bx.dx))
              y  == RAdd(get_y0(bl, bx.dy), RMul(dy, bx.dy))
              ha == IF kw.horizontalalignment # None
                    THEN kw.horizontalalignment
                    ELSE IF kw.ha # None THEN kw.ha ELSE get_ha(bl)
              va == IF kw.verticalalignment # None
                    THEN kw.verticalalignment
                    ELSE IF kw.va # None THEN kw.va ELSE get_va(bl)
          IN  IF va = "top_baseline" THEN TextRaised("KeyError")
              ELSE [err |-> None,
                    draw |-> [x |-> x, y |-> y, s |-> s_, ha |-> ha,
                              va |-> va, color |-> kw.color]]

\* Boxes a figure holds: the three boxes of fig_add_text_boxes() with its
\* default fractions on the 12x9 figure, for every realized map size
DefaultArgs == [h_rel |-> R(1, 10), w_rel |-> R(1, 4),
                pad_hor_rel |-> R(3, 200)]
FigSizeAspect == R(12, 9)

\* realized map sizes [w, h]: a tall and a very flat map
BoxMapSizes == { <<R(4, 5), R(3, 5)>>, <<R(4, 5), R(1, 20)>> }

Boxes ==
    { FlexAxesTextBox(m[1], m[2],
          text_box_rects(m[1], m[2], FigSizeAspect, DefaultArgs.h_rel,
                         DefaultArgs.w_rel, DefaultArgs.pad_hor_rel)[i]) :
        m \in BoxMapSizes, i \in 1..3 }

\* ---- Python string methods used by text_blocks_hfill ----

IsSpace(c) == c \in {" ", "\t", "\n"}

RECURSIVE LStrip(_)
LStrip(s) == IF Len(s) > 0 /\ IsSpace(SubSeq(s, 1, 1))
             THEN LStrip(SubSeq(s, 2, Len(s))) ELSE s

RECURSIVE RStrip(_)
RStrip(s) == IF Len(s) > 0 /\ IsSpace(SubSeq(s, Len(s), Len(s)))
             THEN RStrip(SubSeq(s, 1, Len(s) - 1)) ELSE s

\* str.strip()
Strip(s) == RStrip(LStrip(s))

\* index of the first occurrence of sep in s at or after i; 0 if none
RECURSIVE Find(_, _, _)
Find(s, sep, i) ==
    IF i + Len(sep) - 1 > Len(s) THEN 0
    ELSE IF SubSeq(s, i, i + Len(sep) - 1) = sep THEN i
    ELSE Find(s, sep, i + 1)

\* str.split(sep)
RECURSIVE Split(_, _)
Split(s, sep) ==
    LET k == Find(s, sep, 1)
    IN  IF k = 0 THEN <<s>>
        ELSE <<SubSeq(s, 1, k - 1)>>
                 \o Split(SubSeq(s, k + Len(sep), Len(s)), sep)

\* str.split(sep, 1)
Split1(s, sep) ==
    LET k == Find(s, sep, 1)
    IN  IF k = 0 THEN <<s>>
        ELSE <<SubSeq(s, 1, k - 1), SubSeq(s, k + Len(sep), Len(s))>>

PyList(v)  == [t |-> "list", v |-> v]
PyTuple(v) == [t |-> "tuple", v |-> v]
StrList(ss) == [k \in 1..Len(ss) |-> PyStr(ss[k])]

Reverse(q) == [k \in 1..Len(q) |-> q[Len(q) + 1 - k]]

\* ---- text_blocks ----

\* an absent colors argument, and a given one
ColorsNone == [none |-> TRUE, v |-> <<>>]
Colors(v)  == [none |-> FALSE, v |-> v]

\* keyword arguments of text_blocks (and, with dx, of text_blocks_hfill)
NoTb == [dy0 |-> RNone, dy_line |-> RNone, dy_block |-> RNone,
         reverse |-> FALSE, colors |-> ColorsNone, color |-> None,
         dx |-> RNone, ha |-> None, va |-> None]

\* plot.py 920-930 for one block: its line colours with the default filled
\* in.  A colour list shorter than the block ends in IndexError; the
\* second length test (923) repeats the first and never fires.
prepare_block_colors(block, cb, default_color) ==
    LET cols == IF cb.none THEN [j \in 1..Len(block) |-> None] ELSE cb.v
    IN  IF Len(cols) < Len(block) THEN [err |-> "IndexError", v |-> <<>>]
        ELSE [err |-> None,
              v |-> [j \in 1..Len(cols) |->
                        IF j <= Len(block) /\ cols[j] = None
                        THEN default_color ELSE cols[j]]]

\* plot.py 913-930.  The message of the first ValueError reads the deleted
\* name `colors` and fails with UnboundLocalError.
prepare_colors(blocks, colors_, default_color) ==
    IF ~colors_.none /\ Len(colors_.v) # Len(blocks)
    THEN [err |-> "UnboundLocalError", v |-> <<>>]
    ELSE
      LET per == [i \in 1..Len(blocks) |->
                    prepare_block_colors(blocks[i],
                        IF colors_.none THEN ColorsNone ELSE colors_.v[i],
                        default_color)]
      IN  IF \E i \in 1..Len(blocks) : per[i].err # None
          THEN [err |-> "IndexError", v |-> <<>>]
          ELSE [err |-> None, v |-> [i \in 1..Len(blocks) |-> per[i].v]]

\* a reversal of the block order that leaves the lines of a block as given
revert_blocks_only(lsts) == Reverse(lsts)

\* def revert(lsts)
revert(lsts) == Reverse([i \in 1..Len(lsts) |-> Reverse(lsts[i])])

\* the (block, line) index pairs in the order the loops of
\* plot.py 941-951 visit them
RECURSIVE loop_order(_, _)
loop_order(blocks, i) ==
    IF i > Len(blocks) THEN <<>>
    ELSE [j \in 1..Len(blocks[i]) |-> <<i, j>>] \o loop_order(blocks, i + 1)

\* the loops with dy_block taking the place of the dy_line added after
\* the last line of a block
dy_at_block_only(k, i, dy0, dy_line, dy_block) ==
    RAdd(dy0, RAdd(RMul(R(k - i, 1), dy_line), RMul(R(i - 1, 1), dy_block)))

\* dy when the loops reach the k-th line overall, in block i: dy0, plus
\* dy_line for every line drawn before, plus dy_block for every block
\* completed before (plot.py 940, 950, 951)
dy_at(k, i, dy0, dy_line, dy_block) ==
    RAdd(dy0, RAdd(RMul(R(k - 1, 1), dy_line), RMul(R(i - 1, 1), dy_block)))

\* the self.text call for the k-th line the loops visit
loop_text(bx, loc_, blocks, colors_blocks, tb, dy0, dy_line, dy_block, k) ==
    LET ij == loop_order(blocks, 1)[k]
    IN  text(bx, loc_, blocks[ij[1]][ij[2]], tb.dx,
             dy_at(k, ij[1], dy0, dy_line, dy_block),
             [NoKw EXCEPT !.ha = tb.ha, !.va = tb.va,
                          !.color = colors_blocks[ij[1]][ij[2]]])

\* plot.py 940-951: the calls made until the first one that raises
draw_blocks(bx, loc_, blocks, colors_blocks, tb, dy0, dy_line, dy_block) ==
    LET n   == Len(loop_order(blocks, 1))
        res == [k \in 1..n |-> loop_text(bx, loc_, blocks, colors_blocks,
                                         tb, dy0, dy_line, dy_block, k)]
        bad == {k \in 1..n : res[k].err # None}
    IN  IF bad = {}
        THEN [draws |-> [k \in 1..n |-> res[k].draw], err |-> None]
        ELSE LET k0 == CHOOSE k \in bad : \A m \in bad : k <= m
             IN  [draws |-> [k \in 1..(k0 - 1) |-> res[k].draw],
                  err |-> res[k0].err]

\* FlexAxesTextBox.text_blocks: the ax.text calls made, in order, and the
\* exception that ended it (draws made before it stay on the box)
text_blocks(bx, loc_, blocks, tb) ==
    LET dy_line  == IF IsNone(tb.dy_line) THEN R(25, 10) ELSE tb.dy_line
        dy0      == IF IsNone(tb.dy0) THEN dy_line ELSE tb.dy0
        dy_block == IF IsNone(tb.dy_block) THEN dy_line ELSE tb.dy_block
        default_color == IF tb.color # None THEN tb.color ELSE "black"
        pc_      == prepare_colors(blocks, tb.colors, default_color)
    IN  IF pc_.err # None THEN [draws |-> <<>>, err |-> pc_.err]
        ELSE draw_blocks(bx, loc_,
                         IF tb.reverse THEN revert(blocks) ELSE blocks,
                         IF tb.reverse THEN revert(pc_.v) ELSE pc_.v,
                         tb, dy0, dy_line, dy_block)

\* ---- text_blocks_hfill ----

\* plot.py 992-1006: the list of blocks, multiblock strings taken apart
RECURSIVE flatten_blocks(_)
flatten_blocks(bs) ==
    IF Len(bs) = 0 THEN <<>>
    ELSE (IF Head(bs).t = "str"
          THEN StrList(Split(Strip(Head(bs).v), "\n\n"))
          ELSE <<Head(bs)>>) \o flatten_blocks(Tail(bs))

hfill_blocks(arg) ==
    flatten_blocks(IF arg.t = "str"
                   THEN StrList(Split(Strip(arg.v), "\n\n"))
                   ELSE arg.v)

\* plot.py 1012-1014: a string block becomes a list of lines
block_lines(b) ==
    IF b.t = "str" THEN StrList(Split(Strip(b.v), "\n")) ELSE b.v

\* plot.py 1020-1026: the left and right part of a line.  A string without
\* a tab yields one part and the unpacking raises ValueError.
split_line(line) ==
    IF line.t = "str"
    THEN LET parts == Split1(line.v, "\t")
         IN  IF Len(parts) = 2
             THEN [err |-> None, l |-> parts[1], r |-> parts[2]]
             ELSE [err |-> "ValueError", l |-> "", r |-> ""]
    ELSE IF Len(line.v) = 2
         THEN [err |-> None, l |-> line.v[1], r |-> line.v[2]]
         ELSE [err |-> "ValueError", l |-> "", r |-> ""]

\* plot.py 1008-1029
hfill_parse(arg) ==
    LET bs == hfill_blocks(arg)
        ls == [i \in 1..Len(bs) |-> block_lines(bs[i])]
        sp == [i \in 1..Len(bs) |->
                 [j \in 1..Len(ls[i]) |-> split_line(ls[i][j])]]
    IN  IF \E i \in 1..Len(bs) : \E j \in 1..Len(ls[i]) : sp[i][j].err # None
        THEN [err |-> "ValueError", blocks_l |-> <<>>, blocks_r |-> <<>>]
        ELSE [err |-> None,
              blocks_l |-> [i \in 1..Len(bs) |->
                              [j \in 1..Len(ls[i]) |-> sp[i][j].l]],
              blocks_r |-> [i \in 1..Len(bs) |->
                              [j \in 1..Len(ls[i]) |-> sp[i][j].r]]]

\* FlexAxesTextBox.text_blocks_hfill; loc_y is accepted and not read
text_blocks_hfill(bx, loc_y, arg, tb) ==
    LET p    == hfill_parse(arg)
        dx_l == tb.dx
        dx_r == IF IsNone(dx_l) THEN RNone ELSE RSub(RZero, dx_l)
    IN  IF p.err # None THEN [draws |-> <<>>, err |-> p.err]
        ELSE
          LET l == text_blocks(bx, PyStr("bl"), p.blocks_l,
                               [tb EXCEPT !.dx = dx_l])
          IN  IF l.err # None THEN l
              ELSE LET r == text_blocks(bx, PyStr("br"), p.blocks_r,
                                        [tb EXCEPT !.dx = dx_r])
                   IN  [draws |-> l.draws \o r.draws, err |-> r.err]

-----------------------------------------------------------------------------
(* Operations on one text box                                              *)

\* Lines handed to text_blocks_hfill, as (left, right) parts: a label with
\* a value, a value without label whose text holds a tab, a label with an
\* empty value
HfillLines == { <<"Height:", "100 m AGL">>, <<"", "a\tb">>, <<"Rate:", "">> }

MaxTotalLines == 2

\* the blocks made of the lines ls, a new block starting after each
\* position in cuts
RECURSIVE BlocksFrom(_, _, _)
BlocksFrom(ls, cuts, k) ==
    IF k > Len(ls) THEN <<>>
    ELSE LET rest == BlocksFrom(ls, cuts, k + 1)
         IN  IF k = Len(ls) \/ k \in cuts
             THEN << <<ls[k]>> >> \o rest
             ELSE << <<ls[k]>> \o Head(rest) >> \o Tail(rest)

HfillBlocks ==
    UNION { { BlocksFrom(ls, cuts, 1) : cuts \in SUBSET (1..(n - 1)) } :
            <<n, ls>> \in UNION { {n} \X [1..n -> HfillLines] :
                                       n \in 1..MaxTotalLines } }

RECURSIVE Join(_, _)
Join(ss, sep) == IF Len(ss) = 0 THEN ""
                 ELSE IF Len(ss) = 1 THEN ss[1]
                 ELSE ss[1] \o sep \o Join(Tail(ss), sep)

LineStr(ln)    == ln[1] \o "\t" \o ln[2]
BlockStr(blk)  == Join([j \in 1..Len(blk) |-> LineStr(blk[j])], "\n")

\* the forms the docstring of text_blocks_hfill allows for its argument
HfillForms == {"string", "string_blocks", "line_lists", "tuple_lists"}

HfillArg(blocks, form) ==
    CASE form = "string" ->
           PyStr(Join([i \in 1..Len(blocks) |-> BlockStr(blocks[i])], "\n\n"))
      [] form = "string_blocks" ->
           PyList([i \in 1..Len(blocks) |-> PyStr(BlockStr(blocks[i]))])
      [] form = "line_lists" ->
           PyList([i \in 1..Len(blocks) |->
              PyList([j \in 1..Len(blocks[i]) |->
                          PyStr(LineStr(blocks[i][j]))])])
      [] form = "tuple_lists" ->
           PyList([i \in 1..Len(blocks) |->
              PyList([j \in 1..Len(blocks[i]) |-> PyTuple(blocks[i][j])])])

\* horizontal and vertical offsets passed by the box fillers
DxArgs == {RNone, R(2, 1)}
DyArgs == {RNone, R(-3, 2)}

\* loc arguments of text: the short codes and one of each other kind
TextLocs ==
    { PyStr(LocTable[k].short) : k \in 1..Len(LocTable) }
    \cup { PyInt(0), PyInt(22), PyStr("21"), PyStr("top left"),
           PyStr("center"), PyStr("xx") }

\* alignment keywords handed to text: none, top_baseline under either
\* name, and an ordinary override
TextKw ==
    { NoKw,
      [NoKw EXCEPT !.va = "top_baseline"],
      [NoKw EXCEPT !.verticalalignment = "top_baseline"],
      [NoKw EXCEPT !.va = "center", !.ha = "center"] }

\* blocks handed to text_blocks: the lines L1..Ln cut into blocks in
\* every way
MaxBlockLines == 3
TbBlocks ==
    UNION { { BlocksFrom([k \in 1..n |-> "L" \o IntToStr(k)], cuts, 1) :
                cuts \in SUBSET (1..(n - 1)) } : n \in 1..MaxBlockLines }

\* (dy0, dy_line, dy_block) arguments, absent ones falling to defaults
TbDys ==
    { <<RNone, RNone, RNone>>, <<R(1, 1), RNone, R(1, 2)>>,
      <<R(2, 1), R(-3, 1), RNone>>, <<RNone, R(3, 1), R(-1, 1)>> }

\* colors arguments for the blocks: none; one colour per line; colours
\* with the first line of each block and the whole last of several blocks
\* left out with None; and lists that break the documented shape (a
\* colour short or a colour long in each block, a block too many)
TbColorForms == {"none", "full", "partial", "short", "long", "extra_block"}

TbColors(blocks, form) ==
    LET full(i) == [j \in 1..Len(blocks[i]) |-> "c_" \o blocks[i][j]]
    IN  CASE form = "none" -> ColorsNone
          [] form = "full" ->
               Colors([i \in 1..Len(blocks) |-> Colors(full(i))])
          [] form = "partial" ->
               Colors([i \in 1..Len(blocks) |->
                  IF i > 1 /\ i = Len(blocks) THEN ColorsNone
                  ELSE Colors([j \in 1..Len(blocks[i]) |->
                                  IF j = 1 THEN None ELSE full(i)[j]])])
          [] form = "short" ->
               Colors([i \in 1..Len(blocks) |->
                  Colors(SubSeq(full(i), 1, Len(blocks[i]) - 1))])
          [] form = "long" ->
               Colors([i \in 1..Len(blocks) |->
                  Colors(Append(full(i), "c_more"))])
          [] form = "extra_block" ->
               Colors([i \in 1..(Len(blocks) + 1) |->
                  IF i <= Len(blocks) THEN Colors(full(i)) ELSE ColorsNone])

TbLocs == { PyStr("bl"), PyStr("tl") }

\* dx and reverse as the box fillers combine them
HfillKw == { <<RNone, FALSE>>, <<R(2, 1), FALSE>>, <<RNone, TRUE>> }

InitText ==
    /\ pc = "box"
    /\ box \in Boxes
    /\ texts = <<>>
    /\ call = None
    /\ err = None
    /\ LayoutIdle /\ LocIdle /\ LevelIdle /\ RenderIdle /\ BaselineIdle
    /\ RunIdle

\* box.text(loc, s, dx, dy, **kw)
Text(loc_, dx, dy, kw) ==
    /\ pc = "box"
    /\ LET r == text(box, loc_, "s", dx, dy, kw)
       IN  /\ err' = r.err
           /\ texts' = IF r.err = None THEN Append(texts, r.draw) ELSE texts
    /\ call' = [op |-> "text", loc |-> loc_, dx |-> dx, dy |-> dy, kw |-> kw]
    /\ pc' = "drawn"
    /\ UNCHANGED <<run_vars, render_vars, baseline_vars, box, layout_vars,
                   loc_vars, level_vars>>

\* box.text_blocks(loc, blocks, dy0=, dy_line=, dy_block=, reverse=,
\* colors=)
TextBlocks(loc_, blocks, dys, reverse, cform) ==
    /\ pc = "box"
    /\ LET cols == TbColors(blocks, cform)
           r    == text_blocks(box, loc_, blocks,
                      [NoTb EXCEPT !.dy0 = dys[1], !.dy_line = dys[2],
                                   !.dy_block = dys[3], !.reverse = reverse,
                                   !.colors = cols])
       IN  /\ err' = r.err
           /\ texts' = texts \o r.draws
           /\ call' = [op |-> "text_blocks", loc |-> loc_, blocks |-> blocks,
                       dy0 |-> dys[1], dy_line |-> dys[2],
                       dy_block |-> dys[3], reverse |-> reverse,
                       colors |-> cols, cform |-> cform]
    /\ pc' = "drawn"
    /\ UNCHANGED <<run_vars, render_vars, baseline_vars, box, layout_vars,
                   loc_vars, level_vars>>

\* box.text_blocks_hfill(loc_y, blocks, dx=dx, reverse=reverse)
TextBlocksHfill(blocks, form, dx, reverse) ==
    /\ pc = "box"
    /\ LET r == text_blocks_hfill(box, PyStr("b"), HfillArg(blocks, form),
                                  [NoTb EXCEPT !.dx = dx,
                                               !.reverse = reverse])
       IN  /\ err' = r.err
           /\ texts' = texts \o r.draws
    /\ call' = [op |-> "text_blocks_hfill", blocks |-> blocks,
                form |-> form, dx |-> dx, reverse |-> reverse]
    /\ pc' = "drawn"
    /\ UNCHANGED <<run_vars, render_vars, baseline_vars, box, layout_vars,
                   loc_vars, level_vars>>

\* the lines of a release-info text as fill_box_bottom_right writes
\* them: a label ending in a colon and a value, neither of them empty
ReleaseInfoLines == { <<"Height:", "100 m AGL">>, <<"Rate:", "34722.2 Bq">> }

MaxInfoLines == 3

\* the release-info texts: up to MaxInfoLines lines in any grouping
InfoBlocks ==
    UNION { { BlocksFrom(ls, cuts, 1) : cuts \in SUBSET (1..(n - 1)) } :
            <<n, ls>> \in UNION { {n} \X [1..n -> ReleaseInfoLines] :
                                       n \in 1..MaxInfoLines } }

\* the draws of a box title and of the text drawn after it, which is not
\* reached if the title raises
title_then(title, body) ==
    IF title.err # None THEN [draws |-> <<>>, err |-> title.err]
    ELSE [draws |-> <<title.draw>> \o body.draws, err |-> body.err]

\* the filler with the lines added top-down
fill_box_bottom_right_top_down(bx, info_blocks) ==
    title_then(text(bx, PyStr("tc"), "Release", RNone, RNone, NoKw),
               text_blocks_hfill(bx, PyStr("b"), PyStr(info_blocks),
                                 [NoTb EXCEPT !.dy_line = R(11, 4)]))

\* fill_box_bottom_right: the title, and the info text added bottom-up
fill_box_bottom_right(bx, info_blocks) ==
    title_then(text(bx, PyStr("tc"), "Release", RNone, RNone, NoKw),
               text_blocks_hfill(bx, PyStr("b"), PyStr(info_blocks),
                                 [NoTb EXCEPT !.dy_line = R(11, 4),
                                              !.reverse = TRUE]))

\* fill_box_bottom_right(box), its info text being blocks
FillBoxBottomRight(blocks) ==
    /\ pc = "box"
    /\ \E r \in { fill_box_bottom_right(box,
                     Join([i \in 1..Len(blocks) |-> BlockStr(blocks[i])],
                          "\n\n")) } :
          /\ err' = r.err
          /\ texts' = texts \o r.draws
    /\ call' = [op |-> "fill_box_bottom_right", blocks |-> blocks]
    /\ pc' = "drawn"
    /\ UNCHANGED <<run_vars, render_vars, baseline_vars, box, layout_vars,
                   loc_vars, level_vars>>

NextText ==
    \/ \E blocks \in InfoBlocks : FillBoxBottomRight(blocks)
    \/ \E loc_ \in TextLocs, dx \in DxArgs, dy \in DyArgs, kw \in TextKw :
          Text(loc_, dx, dy, kw)
    \/ \E loc_ \in TbLocs, blocks \in TbBlocks, dys \in TbDys,
          reverse \in BOOLEAN, cform \in TbColorForms :
          TextBlocks(loc_, blocks, dys, reverse, cform)
    \/ \E blocks \in HfillBlocks, form \in HfillForms, kw \in HfillKw :
          TextBlocksHfill(blocks, form, kw[1], kw[2])

SpecText == InitText /\ [][NextText]_vars

-----------------------------------------------------------------------------
(* Claims on the text box                                                  *)

\* a text() call without offsets that drew: the drawn position is the
\* anchor's (x0, y0) for the box's unit distances
AnchorDrawn ==
    /\ pc = "drawn"
    /\ call.op = "text"
    /\ err = None
    /\ call.kw = NoKw
    /\ IsNone(call.dx) /\ IsNone(call.dy)

\* the row of the docstring's table the loc argument spells
TextAnchor ==
    LocTable[CHOOSE k \in 1..Len(LocTable) : call.loc \in FormsOf(LocTable[k])]

\* alignments and baselines as C9 lists them
AnchorMapping ==
    LET a == TextAnchor
        d == texts[1]
    IN  /\ d.va = (CASE a.y = "b" -> "baseline"
                     [] a.y = "c" -> "center_baseline"
                     [] a.y = "t" -> "top")
        /\ d.ha = (CASE a.x = "l" -> "left"
                     [] a.x = "c" -> "center"
                     [] a.x = "r" -> "right")
        /\ d.y = (CASE a.y = "b" -> box.dy
                    [] a.y = "c" -> R(1, 2)
                    [] a.y = "t" -> RSub(R(1, 1), box.dy))
        /\ d.x = (CASE a.x = "l" -> box.dx
                    [] a.x = "c" -> R(1, 2)
                    [] a.x = "r" -> RSub(R(1, 1), box.dx))

InUnit(r) == RLe(R(0, 1), r) /\ RLe(r, R(1, 1))

\* C9 as stated: bottom/center/top give baseline/center_baseline/top and
\* y0 = dy / 0.5 / 1 - dy, left/center/right give left/center/right and
\* x0 = dx / 0.5 / 1 - dx, and for every unit distance the box has, x0 and
\* y0 lie in [0, 1].
C9_Original ==
    AnchorDrawn =>
        /\ AnchorMapping
        /\ InUnit(texts[1].x) /\ InUnit(texts[1].y)

\* C9 amended: the alignments and baselines are as stated; x0 lies in
\* [0, 1] exactly when the anchor is the horizontal centre or the box's
\* unit distance dx is at most 1, and y0 likewise with dy (a box lower
\* than 1% of the map width has dy > 1).
C9_Anchors ==
    AnchorDrawn =>
        /\ AnchorMapping
        /\ InUnit(texts[1].x) <=> (TextAnchor.x = "c" \/ RLe(box.dx, R(1, 1)))
        /\ InUnit(texts[1].y) <=> (TextAnchor.y = "c" \/ RLe(box.dy, R(1, 1)))

\* text('tr', ...) on a box whose unit distances are below 1
C9_Witness ==
    /\ AnchorDrawn
    /\ call.loc = PyStr("tr")
    /\ RLt(R(0, 1), box.dy) /\ RLt(box.dy, R(1, 1))
    /\ RLt(R(0, 1), box.dx) /\ RLt(box.dx, R(1, 1))
    /\ texts[1].y = RSub(R(1, 1), box.dy)
    /\ texts[1].va = "top"

\* the (left, right) lines of the input blocks in the order they are
\* drawn: as given, or last to first with reverse
RECURSIVE Concat(_)
Concat(q) == IF Len(q) = 0 THEN <<>> ELSE Head(q) \o Concat(Tail(q))

HfillDrawnLines ==
    IF call.reverse THEN Reverse(Concat(call.blocks)) ELSE Concat(call.blocks)

\* C10: for every line 'L<tab>R' given to text_blocks_hfill in any of its
\* input forms, the left and right block lists have the shape of the input
\* blocks, L is drawn left-aligned and R right-aligned at the same y, and
\* the two x positions are symmetric about the box centre.
C10_Original ==
    (pc = "drawn" /\ call.op = "text_blocks_hfill") =>
        LET p  == hfill_parse(HfillArg(call.blocks, call.form))
            ls == HfillDrawnLines
            n  == Len(ls)
        IN  /\ err = None
            /\ p.blocks_l = [i \in 1..Len(call.blocks) |->
                    [j \in 1..Len(call.blocks[i]) |-> call.blocks[i][j][1]]]
            /\ p.blocks_r = [i \in 1..Len(call.blocks) |->
                    [j \in 1..Len(call.blocks[i]) |-> call.blocks[i][j][2]]]
            /\ Len(texts) = 2 * n
            /\ \A k \in 1..n :
                  /\ texts[k].s = ls[k][1] /\ texts[k].ha = "left"
                  /\ texts[n + k].s = ls[k][2] /\ texts[n + k].ha = "right"
                  /\ texts[k].y = texts[n + k].y
                  /\ RAdd(texts[k].x, texts[n + k].x) = R(1, 1)

\* a text_blocks call that returned
TbDrawn == pc = "drawn" /\ call.op = "text_blocks" /\ err = None

\* the offsets in effect: 2.5 between lines unless given, and dy_line for
\* an absent dy0 or dy_block
TbDyLine  == IF IsNone(call.dy_line) THEN R(5, 2) ELSE call.dy_line
TbDy0     == IF IsNone(call.dy0) THEN TbDyLine ELSE call.dy0
TbDyBlock == IF IsNone(call.dy_block) THEN TbDyLine ELSE call.dy_block

\* the blocks in the order they are drawn
TbDrawnBlocks ==
    IF call.reverse
    THEN Reverse([i \in 1..Len(call.blocks) |-> Reverse(call.blocks[i])])
    ELSE call.blocks

\* the block of TbDrawnBlocks holding the k-th drawn line
TbBlockOf(k) ==
    CHOOSE i \in 1..Len(TbDrawnBlocks) :
        /\ Len(Concat(SubSeq(TbDrawnBlocks, 1, i - 1))) < k
        /\ k <= Len(Concat(SubSeq(TbDrawnBlocks, 1, i)))

\* y of the anchor the call draws from: dy above 0 or dy below 1
TbAnchorY ==
    IF call.loc = PyStr("bl") THEN box.dy ELSE RSub(R(1, 1), box.dy)

\* the vertical offset, in unit distances, from drawn line k to line k + 1
TbStep(k) == RDiv(RSub(texts[k + 1].y, texts[k].y), box.dy)

\* C11 as stated: the first line is drawn at offset dy0, each further line
\* of a block dy_line beyond the line before, and the first line of a
\* following block dy_block beyond the last line of the block before.
C11_Original ==
    TbDrawn =>
        /\ Len(texts) = Len(Concat(call.blocks))
        /\ texts[1].y = RAdd(TbAnchorY, RMul(TbDy0, box.dy))
        /\ \A k \in 1..(Len(texts) - 1) :
              TbStep(k) = IF TbBlockOf(k + 1) = TbBlockOf(k)
                          THEN TbDyLine ELSE TbDyBlock

\* C11 amended: the first line is drawn at offset dy0, each further line
\* of a block dy_line beyond the line before, and the first line of a
\* following block dy_line + dy_block beyond the last line of the block
\* before.
C11_BlockOffsets ==
    TbDrawn =>
        /\ Len(texts) = Len(Concat(call.blocks))
        /\ texts[1].y = RAdd(TbAnchorY, RMul(TbDy0, box.dy))
        /\ \A k \in 1..(Len(texts) - 1) :
              TbStep(k) = IF TbBlockOf(k + 1) = TbBlockOf(k)
                          THEN TbDyLine ELSE RAdd(TbDyLine, TbDyBlock)

\* text_blocks('bl', [[L1, L2], [L3]], dy0=1, dy_block=0.5): L3 is drawn
\* 2.5 + 0.5 unit distances beyond L2
C11_Witness ==
    /\ TbDrawn
    /\ call.blocks = << <<"L1", "L2">>, <<"L3">> >>
    /\ ~call.reverse
    /\ call.dy_block = R(1, 2) /\ IsNone(call.dy_line)
    /\ TbStep(1) = R(5, 2)
    /\ TbStep(2) = R(3, 1)

\* the colours supplied for the lines, in the order of the lines as given
\* (None: no colour supplied for the line)
TbSuppliedColors ==
    Concat([i \in 1..Len(call.blocks) |->
              IF call.colors.none \/ call.colors.v[i].none
              THEN [j \in 1..Len(call.blocks[i]) |-> None]
              ELSE call.colors.v[i].v])

TopBaselineAsked ==
    /\ pc = "drawn"
    /\ call.op = "text"
    /\ call.loc \in ValidLocs
    /\ Len(str_of(call.loc)) = 2
    /\ \/ call.kw.verticalalignment = "top_baseline"
       \/ call.kw.verticalalignment = None /\ call.kw.va = "top_baseline"

\* C13: text with a top-baseline vertical alignment (through va or
\* verticalalignment) fails with NotImplementedError and adds no text.
C13_Original ==
    TopBaselineAsked => (err = "NotImplementedError" /\ texts = <<>>)

\* a text() call that drew
TextDrawn == pc = "drawn" /\ call.op = "text" /\ err = None

\* the displacement, in figure coordinates, of a text drawn on box b with
\* the offsets of the call from the same text drawn without offsets
Displacement(b) ==
    LET at == text(b, call.loc, "s", call.dx, call.dy, call.kw).draw
        o  == text(b, call.loc, "s", RNone, RNone, call.kw).draw
    IN  [x |-> RMul(RSub(at.x, o.x), b.w), y |-> RMul(RSub(at.y, o.y), b.h)]

\* the offsets of the call as numbers
CallDx == IF IsNone(call.dx) THEN R(0, 1) ELSE call.dx
CallDy == IF IsNone(call.dy) THEN R(0, 1) ELSE call.dy

\* the boxes sharing the reference axes of the box drawn on
SameRef == { b \in Boxes : b.w_ref = box.w_ref /\ b.h_ref = box.h_ref }

\* C14 as stated: one horizontal unit distance is 1% of the reference
\* width and one vertical unit distance 1% of the reference height in
\* figure coordinates, whatever the box's own size, so the same dx/dy
\* gives the same absolute displacement in every box of the reference.
C14_Original ==
    TextDrawn =>
        /\ RMul(box.dx, box.w) = RMul(R(1, 100), box.w_ref)
        /\ RMul(box.dy, box.h) = RMul(R(1, 100), box.h_ref)
        /\ \A b \in SameRef : Displacement(b) = Displacement(box)

\* C14 amended: one horizontal and one vertical unit distance are both 1%
\* of the reference width in figure coordinates, whatever the box's own
\* size, so the same dx/dy gives the same absolute displacement in every
\* box of the reference.
C14_UnitDistances ==
    TextDrawn =>
        /\ RMul(box.dx, box.w) = RMul(R(1, 100), box.w_ref)
        /\ RMul(box.dy, box.h) = RMul(R(1, 100), box.w_ref)
        /\ RMul(RSub(texts[1].x,
                     text(box, call.loc, "s", RNone, RNone, call.kw).draw.x),
                box.w) = RMul(CallDx, RMul(R(1, 100), box.w_ref))
        /\ Displacement(box) =
              [x |-> RMul(CallDx, RMul(R(1, 100), box.w_ref)),
               y |-> RMul(CallDy, RMul(R(1, 100), box.w_ref))]
        /\ \A b \in SameRef : Displacement(b) = Displacement(box)

\* text(loc, s, dx=2, dy=-1.5) on a box that shares its reference with a
\* box of another size
C14_Witness ==
    /\ TextDrawn
    /\ call.dx = R(2, 1) /\ call.dy = R(-3, 2)
    /\ \E b \in SameRef : b.w # box.w /\ b.h # box.h
    /\ Displacement(box) = [x |-> RMul(R(2, 100), box.w_ref),
                            y |-> RMul(R(-3, 200), box.w_ref)]

-----------------------------------------------------------------------------
(* Levels, colours and legend labels                                       *)
(*   plot.py 234-271, 403-432; plots.py 206-311, 352-363, 700-753          *)

ExtendModes == {"none", "min", "max", "both"}

\* a level 10**k of self.levels = 10**levels_log10, kept by its exponent;
\* LvlNone is the None handed to format_label
Lvl(k)  == [none |-> FALSE, pow10 |-> k]
LvlNone == [none |-> TRUE, pow10 |-> 0]

\* np.arange(lo, hi + 0.1, 1)
arange(lo, hi) == [i \in 1..(hi - lo + 1) |-> lo + i - 1]

\* cmap(np.linspace(0, 1, n)): n samples of the colour map, each kept as
\* the position it is taken at
cmap_samples(name, n) ==
    [i \in 1..n |-> [cmap |-> name,
                     at |-> IF n = 1 THEN R(0, 1) ELSE R(i - 1, n - 1)]]

\* the Python slice q[a:len(q)-b]
Slice(q, a, b) == IF a + 1 > Len(q) - b THEN <<>>
                  ELSE SubSeq(q, a + 1, Len(q) - b)

\* the mode table with every mode holding all the samples
held_colors_all(cols, ext) == cols

\* plot.py 262-267: the colours held for the extend mode
held_colors(cols, ext) ==
    CASE ext = "none" -> Slice(cols, 1, 1)
      [] ext = "min"  -> Slice(cols, 0, 1)
      [] ext = "max"  -> Slice(cols, 1, 0)
      [] ext = "both" -> Slice(cols, 0, 0)

RECURSIVE Rep(_, _)
Rep(c, n) == IF n <= 0 THEN "" ELSE c \o Rep(c, n - 1)

\* f"{10**k:g}": six significant digits without trailing zeros, in
\* exponent notation when the decimal exponent is below -4 or at least 6
format_g(k) ==
    IF k < -4 \/ k >= 6
    THEN "1e" \o (IF k < 0 THEN "-" ELSE "+")
              \o (IF Abs(k) < 10 THEN "0" ELSE "") \o IntToStr(Abs(k))
    ELSE IF k >= 0 THEN "1" \o Rep("0", k)
    ELSE "0." \o Rep("0", (-k) - 1) \o "1"

\* format_level
format_level(lvl) == IF lvl.none THEN "" ELSE Strip(format_g(lvl.pow10))

\* f"{s:>w}" and f"{s:<w}"
rjust(s, w) == Rep(" ", w - Len(s)) \o s
ljust(s, w) == s \o Rep(" ", w - Len(s))

\* format_label
format_label(lvl0, lvl1) ==
    rjust(format_level(lvl0), 6) \o " > " \o ljust(format_level(lvl1), 6)

\* _format_level_ranges: the labels, or the AssertionError of its last
\* statement
format_level_ranges(lvls, ext, cols) ==
    LET n        == Len(lvls)
        under    == IF ext \in {"min", "both"}
                    THEN << format_label(LvlNone, lvls[1]) >> ELSE <<>>
        interior == [i \in 1..(n - 1) |-> format_label(lvls[i], lvls[i + 1])]
        over     == IF ext \in {"max", "both"}
                    THEN << format_label(LvlNone, lvls[n]) >> ELSE <<>>
        lbls     == under \o interior \o over
    IN  IF Len(lbls) = Len(cols) THEN [err |-> None, v |-> lbls]
        ELSE [err |-> "AssertionError", v |-> <<>>]

\* ---- colors_flexplot (plots.py 700-753) ----

color_under == "darkgray"
color_over  == "lightgray"

colors_core_8 ==
    << "bisque", "violet", "rebeccapurple", "cornflowerblue", "forestgreen",
       "yellowgreen", "greenyellow", "yellow" >>

\* the selection read from the far end of the list
pick_from_end(q, idx) == [i \in 1..Len(idx) |-> q[Len(q) - idx[i]]]

\* [q[i] for i in idx], idx counting from 0
pick(q, idx) == [i \in 1..Len(idx) |-> q[idx[i] + 1]]

colors_core_7 == pick(colors_core_8, <<0, 1, 2, 3, 5, 6, 7>>)
colors_core_6 == pick(colors_core_8, <<1, 2, 3, 4, 5, 7>>)
colors_core_5 == pick(colors_core_8, <<1, 2, 4, 5, 7>>)
colors_core_4 == pick(colors_core_8, <<1, 2, 4, 7>>)

colors_core_table ==
    [n \in 5..9 |-> CASE n = 5 -> colors_core_4
                      [] n = 6 -> colors_core_5
                      [] n = 7 -> colors_core_6
                      [] n = 8 -> colors_core_7
                      [] n = 9 -> colors_core_8]

\* a lookup that falls back to the nearest supported level count
colors_core_nearest(n_levels) ==
    [found |-> TRUE,
     v |-> colors_core_table[IF n_levels < 5 THEN 5
                             ELSE IF n_levels > 9 THEN 9 ELSE n_levels]]

\* plots.py 735-743: the dict lookup; found is FALSE on KeyError
colors_core(n_levels) ==
    IF n_levels \in DOMAIN colors_core_table
    THEN [found |-> TRUE, v |-> colors_core_table[n_levels]]
    ELSE [found |-> FALSE, v |-> <<>>]

PaletteRaised(m) == [err |-> "ValueError", msg |-> m, v |-> <<>>]
PaletteOf(cs)    == [err |-> None, msg |-> "", v |-> cs]

colors_flexplot(n_levels, ext) ==
    LET c == colors_core(n_levels)
    IN  IF ~c.found THEN PaletteRaised("n_levels=" \o IntToStr(n_levels))
        ELSE IF ext = "none" THEN PaletteOf(c.v)
        ELSE IF ext = "min" THEN PaletteOf(<<color_under>> \o c.v)
        ELSE IF ext = "max" THEN PaletteOf(c.v \o <<color_over>>)
        ELSE IF ext = "both"
             THEN PaletteOf(<<color_under>> \o c.v \o <<color_over>>)
        ELSE PaletteRaised("extend='" \o ext \o "'")

\* ---- create_plot_config: level count, extend mode and colours ----

\* an optional int argument such as ens_param_mem_min
IntNone   == [none |-> TRUE, v |-> 0]
IntOf(i)  == [none |-> FALSE, v |-> i]

\* the fields of InputSetup create_plot_config reads.  plot_variable is
\* read for deterministic simulations; ens_variable, ens_param_mem_min and
\* the number of ens_member_id entries for ensembles.  An input variable
\* or an ensemble variable the branches do not name is "other".
EnsVariables ==
    {"other", "minimum", "maximum", "median", "mean", "probability",
     "cloud_arrival_time", "cloud_departure_time",
     "cloud_occurrence_probability"}

InputVariables == {"concentration", "deposition", "other"}

Setups ==
    [input_variable : InputVariables,
     integrate : BOOLEAN,
     simulation_type : {"deterministic"},
     plot_variable : {"auto", "affected_area", "affected_area_mono"},
     ens_variable : {"other"},
     ens_param_mem_min : {IntNone},
     n_members : {0}]
    \cup
    [input_variable : InputVariables,
     integrate : {FALSE},
     simulation_type : {"ensemble"},
     plot_variable : {"auto"},
     ens_variable : EnsVariables,
     ens_param_mem_min : {IntNone, IntOf(0), IntOf(10)},
     n_members : {0, 8, 21}]

\* plots.py 206-311: the entries n_levels, extend and cmap of
\* new_config_dct (None: the key is not set; cmap never is)
\* the entries with the single-colour variant treated as any other
config_dct_levels_kept(su) ==
    LET n0 == IF su.input_variable = "concentration" THEN 8 ELSE 9
    IN  IF su.simulation_type = "deterministic"
        THEN [n_levels |-> n0, extend |-> None, cmap |-> None]
        ELSE IF su.ens_variable \in {"minimum", "maximum", "median", "mean"}
             THEN [n_levels |-> n0, extend |-> None, cmap |-> None]
             ELSE [n_levels |->
                      IF su.ens_variable \in
                            {"probability", "cloud_arrival_time",
                             "cloud_departure_time",
                             "cloud_occurrence_probability"}
                      THEN 9 ELSE n0,
                   extend |-> "both", cmap |-> None]

config_dct(su) ==
    LET n0 == IF su.input_variable = "concentration" THEN 8 ELSE 9
    IN  IF su.simulation_type = "deterministic"
        THEN IF su.plot_variable = "affected_area_mono"
             THEN [n_levels |-> 1, extend |-> "none", cmap |-> None]
             ELSE [n_levels |-> n0, extend |-> None, cmap |-> None]
        ELSE IF su.ens_variable \in {"minimum", "maximum", "median", "mean"}
             THEN [n_levels |-> n0, extend |-> None, cmap |-> None]
             ELSE [n_levels |->
                      IF su.ens_variable \in
                            {"probability", "cloud_arrival_time",
                             "cloud_departure_time",
                             "cloud_occurrence_probability"}
                      THEN 9 ELSE n0,
                   extend |-> "both", cmap |-> None]

\* plots.py 352-363
config_colors(su, d) ==
    LET n_levels == d.n_levels
        ext      == IF d.extend = None THEN "max" ELSE d.extend
        cmap     == IF d.cmap = None THEN "flexplot" ELSE d.cmap
    IN  IF su.plot_variable = "affected_area_mono"
        THEN PaletteOf(<< <<R(200, 255), R(200, 255), R(200, 255)>> >>)
        ELSE IF cmap = "flexplot" THEN colors_flexplot(n_levels, ext)
        ELSE PaletteOf([i \in 1..n_levels |->
                          [cmap |-> cmap, at |-> R(i - 1, n_levels - 1)]])

\* ---- create_plot_config: names, labels and info lines ----

Lower == "abcdefghijklmnopqrstuvwxyz"
Upper == "ABCDEFGHIJKLMNOPQRSTUVWXYZ"

\* str.upper() of one character
upper(c) ==
    LET k == Find(Lower, c, 1)
    IN  IF Len(c) = 1 /\ k > 0 THEN SubSeq(Upper, k, k) ELSE c

\* capitalize
capitalize(s) ==
    IF s = "" THEN s ELSE upper(SubSeq(s, 1, 1)) \o SubSeq(s, 2, Len(s))

\* the words argument: the texts of the active language for the keys
\* create_plot_config asks for.  The two tables differ in the case of the
\* first letter of 'flexpart'.
WordTable(flexpart) ==
    [flexpart |-> flexpart, based_on |-> "based on", ensemble |-> "ensemble",
     member_pl |-> "members", data |-> "data", of |-> "of",
     of_fg |-> "of", integrated_g |-> "integrated", total_g |-> "total",
     input_variable |-> "input variable", level |-> "level",
     activity_concentration |-> "activity concentration",
     integrated |-> "integrated", integrated_abbr |-> "int.",
     concentration |-> "concentration", concentration_abbr |-> "concentr.",
     total_f |-> "total", surface_deposition |-> "surface deposition",
     deposition |-> "deposition", affected_area |-> "affected area",
     ensemble_minimum |-> "ensemble minimum",
     ensemble_maximum |-> "ensemble maximum",
     ensemble_median |-> "ensemble median",
     ensemble_mean |-> "ensemble mean",
     probability |-> "probability", cloud |-> "cloud",
     cloud_density |-> "cloud density", minimum_abbr |-> "min.",
     number_of_abbr |-> "no.", hour_pl |-> "hours",
     cloud_arrival_time |-> "cloud arrival time",
     cloud_departure_time |-> "cloud departure time",
     cloud_occurrence_probability |-> "cloud occurrence probability",
     arrival |-> "arrival", departure |-> "departure",
     meteoswiss |-> "MeteoSwiss"]

WordTables == { WordTable("FLEXPART"), WordTable("flexpart") }

\* the texts mdata and symbols give
MData == [variable_unit |-> "Bq m-3", species_name |-> "Cs-137",
          simulation_model_name |-> "COSMO-1",
          simulation_start |-> "2019-05-28 00:00 UTC",
          level_label |-> "500-2000 m AGL", ens_param_thr |-> "1e-9"]
Symbols == [copyright |-> "(c)", geq |-> ">="]

\* round(num/den) to the nearest integer, ties to the even one (num >= 0,
\* den > 0)
round_half_even(num, den) ==
    LET q == num \div den
        r == num % den
    IN  IF 2 * r < den THEN q
        ELSE IF 2 * r > den THEN q + 1
        ELSE IF q % 2 = 0 THEN q ELSE q + 1

\* f"{x:.0%}" for x = num/den
format_percent(num, den) == IntToStr(round_half_even(100 * num, den)) \o "%"

\* a percentage formatted from n_tot alone, the minimum left out
member_count_line_plain(w, su) ==
    capitalize(w.number_of_abbr) \o " " \o w.member_pl \o ":\t"
        \o IntToStr(su.n_members)

\* plots.py 293-300 and 317-324: the line on the number of members
member_count_line(w, su) ==
    LET n_min == IF su.ens_param_mem_min.none \/ su.ens_param_mem_min.v = 0
                 THEN 1 ELSE su.ens_param_mem_min.v
        n_tot == su.n_members
    IN  capitalize(w.number_of_abbr) \o " " \o w.member_pl \o ":\t"
          \o w.minimum_abbr \o " "
          \o (IF su.ens_param_mem_min.none THEN "None"
              ELSE IntToStr(su.ens_param_mem_min.v))
          \o "$\\,/\\,$" \o IntToStr(n_tot)
          \o " (" \o format_percent(n_min, IF n_tot = 0 THEN 1 ELSE n_tot)
          \o ")"

cloud_density_line(w) ==
    capitalize(w.cloud_density) \o ":\t" \o w.minimum_abbr \o " "
        \o MData.ens_param_thr \o " " \o MData.variable_unit

Unbound == "<unbound>"

\* plots.py 201-240: the names the input-variable branch sets;
\* variable_rel stays unbound when neither branch is taken
input_variable_names(w, su) ==
    IF su.input_variable = "concentration"
    THEN [var_name |-> w.activity_concentration,
          long_name |-> IF su.integrate
                        THEN w.integrated \o " " \o w.activity_concentration
                        ELSE w.activity_concentration,
          short_name |-> IF su.integrate
                         THEN w.integrated_abbr \o " " \o w.concentration_abbr
                         ELSE w.concentration,
          variable_rel |-> IF su.integrate
                           THEN w.of_fg \o " " \o w.integrated_g \o " "
                                    \o w.activity_concentration
                           ELSE w.of_fg \o " " \o w.activity_concentration,
          lines |-> << capitalize(w.level) \o ":\t" \o MData.level_label >>]
    ELSE IF su.input_variable = "deposition"
    THEN [var_name |-> w.total_f \o " " \o w.surface_deposition,
          long_name |-> w.total_f \o " " \o w.surface_deposition,
          short_name |-> w.deposition,
          variable_rel |-> w.of_fg \o " " \o w.total_g \o " "
                              \o w.surface_deposition,
          lines |-> <<>>]
    ELSE [var_name |-> "", long_name |-> "", short_name |-> "",
          variable_rel |-> Unbound, lines |-> <<>>]

\* plots.py 242-324: the names, the unit and the right-top lines after
\* the simulation-kind branch, or the UnboundLocalError of reading
\* variable_rel
config_names(w, su) ==
    LET b   == input_variable_names(w, su)
        rel(head) == IF b.variable_rel = Unbound
                     THEN [b EXCEPT !.long_name = Unbound]
                     ELSE [b EXCEPT !.long_name = head \o " " \o b.variable_rel]
        n0  == [long_name |-> b.long_name, short_name |-> b.short_name,
                var_name |-> b.var_name, lines |-> b.lines,
                unit |-> MData.variable_unit]
        with(r, unit_) == [long_name |-> r.long_name,
                           short_name |-> r.short_name,
                           var_name |-> r.var_name, lines |-> r.lines,
                           unit |-> unit_]
    IN  IF su.simulation_type = "deterministic"
        THEN IF su.plot_variable \in {"affected_area", "affected_area_mono"}
             THEN with(rel(w.affected_area), MData.variable_unit)
             ELSE n0
        ELSE CASE su.ens_variable = "minimum" ->
                    with(rel(w.ensemble_minimum), MData.variable_unit)
               [] su.ens_variable = "maximum" ->
                    with(rel(w.ensemble_maximum), MData.variable_unit)
               [] su.ens_variable = "median" ->
                    with(rel(w.ensemble_median), MData.variable_unit)
               [] su.ens_variable = "mean" ->
                    with(rel(w.ensemble_mean), MData.variable_unit)
               [] su.ens_variable = "probability" ->
                    [with(rel(w.probability), "%") EXCEPT
                        !.short_name = w.probability,
                        !.lines = Append(b.lines,
                            w.cloud \o ":\t" \o Symbols.geq \o " "
                              \o MData.ens_param_thr \o " "
                              \o MData.variable_unit)]
               [] su.ens_variable = "cloud_arrival_time" ->
                    [long_name |-> w.cloud_arrival_time,
                     short_name |-> w.arrival, var_name |-> b.var_name,
                     lines |-> b.lines \o << cloud_density_line(w),
                                             member_count_line(w, su) >>,
                     unit |-> w.hour_pl]
               [] su.ens_variable = "cloud_departure_time" ->
                    [long_name |-> w.cloud_departure_time,
                     short_name |-> w.departure, var_name |-> b.var_name,
                     lines |-> b.lines \o << cloud_density_line(w),
                                             member_count_line(w, su) >>,
                     unit |-> w.hour_pl]
               [] su.ens_variable = "cloud_occurrence_probability" ->
                    [long_name |-> w.cloud_occurrence_probability,
                     short_name |-> w.probability, var_name |-> b.var_name,
                     lines |-> b.lines \o << cloud_density_line(w),
                                             member_count_line(w, su) >>,
                     unit |-> "%"]
               [] OTHER -> n0

\* plots.py 184-199, 243-257: the bottom labels and the model_info entry,
\* which is read from them before the labels are capitalized
model_info_det(w) ==
    w.flexpart \o " " \o w.based_on \o " " \o MData.simulation_model_name
        \o ", " \o MData.simulation_start
\* the text for the member ids 0 .. n_members - 1 in the ensemble info
member_range(su) ==
    IF su.n_members = 0 THEN ""
    ELSE "00-" \o TwoDigits(su.n_members - 1)

model_info_ens(w, su) ==
    w.flexpart \o " " \o w.based_on \o " " \o MData.simulation_model_name
        \o " " \o w.ensemble \o " (" \o IntToStr(su.n_members) \o " "
        \o w.member_pl \o ": " \o member_range(su) \o "), "
        \o MData.simulation_start

\* plots.py 151-199, 331-341: the label groups as resolved, before they
\* are capitalized (of the groups top, right_middle and right_bottom the
\* entries that depend on the branches)
resolved_labels(w, su, nm) ==
    [top |-> [tl |-> nm.long_name \o " " \o w.of \o " " \o MData.species_name],
     right_top |-> [title |-> capitalize(w.data),
                    lines |-> << capitalize(w.input_variable) \o ":\t"
                                    \o capitalize(nm.var_name) >> \o nm.lines],
     right_middle |-> [title |-> nm.short_name,
                       title_unit |-> nm.short_name \o " (" \o nm.unit \o ")",
                       unit |-> nm.unit],
     bottom |-> [model_info_det |-> model_info_det(w),
                 model_info_ens |-> model_info_ens(w, su),
                 copyright |-> Symbols.copyright \o w.meteoswiss]]

\* plots.py 343-350: every label of every group capitalized
capitalize_labels(lb) ==
    [top |-> [tl |-> capitalize(lb.top.tl)],
     right_top |-> [title |-> capitalize(lb.right_top.title),
                    lines |-> [k \in 1..Len(lb.right_top.lines) |->
                                  capitalize(lb.right_top.lines[k])]],
     right_middle |-> [title |-> capitalize(lb.right_middle.title),
                       title_unit |-> capitalize(lb.right_middle.title_unit),
                       unit |-> capitalize(lb.right_middle.unit)],
     bottom |-> [model_info_det |-> capitalize(lb.bottom.model_info_det),
                 model_info_ens |-> capitalize(lb.bottom.model_info_ens),
                 copyright |-> capitalize(lb.bottom.copyright)]]

ConfigRaised(su, e) ==
    [setup |-> su, err |-> e, n_levels |-> 0, extend |-> None, cmap |-> None,
     colors |-> <<>>, long_name |-> "", short_name |-> "", resolved |-> None,
     labels |-> None, model_info |-> ""]

\* create_plot_config: the configuration returned, or the exception
create_plot_config(w, su) ==
    LET nm == config_names(w, su)
        d  == config_dct(su)
        c  == config_colors(su, d)
        lb == resolved_labels(w, su, nm)
    IN  IF nm.long_name = Unbound THEN ConfigRaised(su, "UnboundLocalError")
        ELSE IF nm.short_name = "" THEN ConfigRaised(su, "Exception")
        ELSE IF nm.long_name = "" THEN ConfigRaised(su, "Exception")
        ELSE IF c.err # None THEN ConfigRaised(su, c.err)
        ELSE [setup |-> su, err |-> None, n_levels |-> d.n_levels,
              extend |-> d.extend, cmap |-> d.cmap, colors |-> c.v,
              long_name |-> nm.long_name, short_name |-> nm.short_name,
              resolved |-> lb, labels |-> capitalize_labels(lb),
              model_info |-> IF su.simulation_type = "deterministic"
                             THEN lb.bottom.model_info_det
                             ELSE lb.bottom.model_info_ens]

\* ---- operations ----

\* ladders 10**arange(lo, hi + 0.1, 1): short ones from every decade, and
\* the one map_add_particle_concentrations sets
MaxLadderLen == 4
Ladders ==
    { <<lo, lo + n - 1>> : lo \in (-6)..6, n \in 1..MaxLadderLen }
    \cup { <<-1, 9>> }

\* level counts and extend arguments handed to colors_flexplot
MaxNLevels == 11
NLevelsArgs == 0..MaxNLevels
ExtendArgs == ExtendModes \cup {"neither"}

InitLevels ==
    /\ pc = "fig"
    /\ LevelIdle /\ LayoutIdle /\ LocIdle /\ TextIdle /\ RenderIdle
    /\ BaselineIdle /\ RunIdle

\* map_add_particle_concentrations.  The block marked SR_TMP at its top
\* fixes levels_log10 = arange(-1, 9.1, 1) and extend = 'max'; the ladder
\* and the mode are inputs here, the mode table holding all four modes.
MapAddParticleConcentrations(lo, hi, ext) ==
    /\ pc = "fig"
    /\ LET levels_log10 == arange(lo, hi)
       IN  /\ levels' = [i \in 1..Len(levels_log10) |-> Lvl(levels_log10[i])]
           /\ colors' = held_colors(
                  cmap_samples("terrain_r", Len(levels_log10) + 1), ext)
    /\ extend' = ext
    /\ pc' = "contours"
    /\ UNCHANGED <<run_vars, render_vars, baseline_vars, labels, palette,
                   config, layout_vars, loc_vars, text_vars>>

\* _format_level_ranges on the stored levels, extend and colors
FormatLevelRanges ==
    /\ pc = "contours"
    /\ LET r == format_level_ranges(levels, extend, colors)
       IN  labels' = r.v /\ err' = r.err
    /\ pc' = "legend"
    /\ UNCHANGED <<run_vars, render_vars, baseline_vars, levels, extend,
                   colors, palette, config, box, texts, call, layout_vars,
                   loc_vars>>

\* colors_flexplot(n_levels, extend)
ColorsFlexplot(n_levels, ext) ==
    /\ pc = "fig"
    /\ palette' = [n_levels |-> n_levels, extend |-> ext,
                   res |-> colors_flexplot(n_levels, ext)]
    /\ pc' = "palette"
    /\ UNCHANGED <<run_vars, render_vars, baseline_vars, levels, extend,
                   colors, labels, config, layout_vars, loc_vars, text_vars>>

\* create_plot_config(setup, words, symbols, mdata)
CreatePlotConfig(w, su) ==
    /\ pc = "fig"
    /\ config' = create_plot_config(w, su)
    /\ pc' = "config"
    /\ UNCHANGED <<run_vars, render_vars, baseline_vars, levels, extend,
                   colors, labels, palette, layout_vars, loc_vars, text_vars>>

NextLevels ==
    \/ \E ld \in Ladders, ext \in ExtendModes :
          MapAddParticleConcentrations(ld[1], ld[2], ext)
    \/ FormatLevelRanges
    \/ \E n_levels \in NLevelsArgs, ext \in ExtendArgs :
          ColorsFlexplot(n_levels, ext)
    \/ \E w \in WordTables, su \in Setups : CreatePlotConfig(w, su)

SpecLevels == InitLevels /\ [][NextLevels]_vars

-----------------------------------------------------------------------------
(* Claims on levels, colours and labels                                    *)

\* the number of sides the extend mode adds a bin on
Sides(ext) == (IF ext \in {"min", "both"} THEN 1 ELSE 0)
              + (IF ext \in {"max", "both"} THEN 1 ELSE 0)

ExampleLadder == << Lvl(0), Lvl(1), Lvl(2) >>

\* the extend mode a configuration stands for: the one set, or the 'max'
\* that create_plot_config falls back to
ConfigExtend == IF config.extend = None THEN "max" ELSE config.extend

\* the number of labels the formatter gives a ladder of the configured
\* level count under the configured extend mode
ConfigLabels ==
    Len(format_level_ranges([i \in 1..config.n_levels |-> Lvl(i)],
                            ConfigExtend, config.colors).v)

CorePalette(n) ==
    CASE n = 5 -> << "violet", "rebeccapurple", "forestgreen", "yellow" >>
      [] n = 6 -> << "violet", "rebeccapurple", "forestgreen", "yellowgreen",
                     "yellow" >>
      [] n = 7 -> << "violet", "rebeccapurple", "cornflowerblue",
                     "forestgreen", "yellowgreen", "yellow" >>
      [] n = 8 -> << "bisque", "violet", "rebeccapurple", "cornflowerblue",
                     "yellowgreen", "greenyellow", "yellow" >>
      [] n = 9 -> << "bisque", "violet", "rebeccapurple", "cornflowerblue",
                     "forestgreen", "yellowgreen", "greenyellow", "yellow" >>

\* C4: for n_levels in 5..9 and every extend mode colors_flexplot returns
\* the fixed core palette of n_levels - 1 colours, with 'darkgray' in front
\* exactly for min and both and 'lightgray' at the end exactly for max and
\* both; colors_flexplot(6, 'both') has two colours more than the core
\* palette for 6.
C4_Palette ==
    (pc = "palette" /\ palette.n_levels \in 5..9
                    /\ palette.extend \in ExtendModes) =>
        LET core == CorePalette(palette.n_levels)
            v    == palette.res.v
            lo   == palette.extend \in {"min", "both"}
            hi   == palette.extend \in {"max", "both"}
        IN  /\ palette.res.err = None
            /\ Len(core) = palette.n_levels - 1
            /\ v = (IF lo THEN <<"darkgray">> ELSE <<>>) \o core
                     \o (IF hi THEN <<"lightgray">> ELSE <<>>)
            /\ (v[1] = "darkgray") <=> lo
            /\ (v[Len(v)] = "lightgray") <=> hi
            /\ (palette.n_levels = 6 /\ palette.extend = "both") =>
                   Len(v) = Len(CorePalette(6)) + 2

\* colors_flexplot(6, 'both')
C4_Witness ==
    /\ pc = "palette"
    /\ palette.n_levels = 6 /\ palette.extend = "both"
    /\ Len(palette.res.v) = 7
    /\ palette.res.v[1] = "darkgray" /\ palette.res.v[7] = "lightgray"

\* C5: for every level count outside 5..9 colors_flexplot raises the
\* ValueError naming n_levels, whatever the extend argument, and returns
\* no colours.
C5_UnsupportedLevelCount ==
    (pc = "palette" /\ palette.n_levels \notin 5..9) =>
        /\ palette.res.err = "ValueError"
        /\ palette.res.msg = "n_levels=" \o IntToStr(palette.n_levels)
        /\ palette.res.v = <<>>

\* colors_flexplot(10, 'max') and colors_flexplot(4, 'neither')
C5_Witness ==
    /\ pc = "palette"
    /\ \/ palette.n_levels = 10 /\ palette.extend = "max"
       \/ palette.n_levels = 4 /\ palette.extend = "neither"
    /\ palette.res.err = "ValueError"

\* the text of a label left and right of its " > "
LabelLeft(lbl)  == Strip(SubSeq(lbl, 1, 6))
LabelRight(lbl) == Strip(SubSeq(lbl, 10, Len(lbl)))

\* C6: one label per bin: '{lo} > {hi}' for consecutive levels, a blank
\* left side and the lowest level on the right for the under bin, the
\* highest level on the left and a blank right side for the over bin, all
\* labels of a legend having the same length.
C6_Original ==
    pc = "legend" =>
        LET n  == Len(levels)
            u  == IF extend \in {"min", "both"} THEN 1 ELSE 0
            o  == IF extend \in {"max", "both"} THEN 1 ELSE 0
        IN  /\ Len(labels) = u + (n - 1) + o
            /\ \A k \in 1..Len(labels) :
                  /\ Len(labels[k]) = Len(labels[1])
                  /\ SubSeq(labels[k], 7, 9) = " > "
            /\ u = 1 => /\ LabelLeft(labels[1]) = ""
                        /\ LabelRight(labels[1]) = format_level(levels[1])
            /\ \A i \in 1..(n - 1) :
                  /\ LabelLeft(labels[u + i]) = format_level(levels[i])
                  /\ LabelRight(labels[u + i]) = format_level(levels[i + 1])
            /\ o = 1 => /\ LabelLeft(labels[Len(labels)])
                              = format_level(levels[n])
                        /\ LabelRight(labels[Len(labels)]) = ""

\* ---- create_plot_config: names, labels and info lines ----

ConfigDone == pc = "config"
ConfigReturned == pc = "config" /\ config.err = None

\* the error the two name checks raise
MissingLabelError == "Exception"

\* the setup names an input variable that is neither concentration nor
\* deposition and a statistic that brings no names of its own, so that no
\* branch of create_plot_config gives the long or the short name a text
NamesLeftUnset(su) ==
    /\ su.input_variable \notin {"concentration", "deposition"}
    /\ \/ su.simulation_type = "deterministic"
       \/ su.ens_variable \notin {"cloud_arrival_time", "cloud_departure_time",
                                  "cloud_occurrence_probability"}

\* C15: whenever the long name or the short name is still unset after
\* the input-variable and simulation-kind branching, the call fails with
\* the missing-label error, and no configuration with an empty long or
\* short name is ever returned.
C15_Original ==
    ConfigDone =>
        /\ NamesLeftUnset(config.setup) => config.err = MissingLabelError
        /\ config.err = None =>
              (config.long_name # "" /\ config.short_name # "")

\* C16 as stated: every deterministic setup with an affected-area plot
\* variable gives a configuration with level count 1 and extend mode
\* 'none'.
C16_Original ==
    (/\ ConfigReturned
     /\ config.setup.simulation_type = "deterministic"
     /\ config.setup.plot_variable \in {"affected_area", "affected_area_mono"})
    => (config.n_levels = 1 /\ config.extend = "none")

\* C16 amended: of the deterministic affected-area variants only
\* 'affected_area_mono' gives a configuration with level count 1 and
\* extend mode 'none' (and the single grey colour); plain 'affected_area'
\* keeps the level count of its input variable (8 for concentration, 9 for
\* deposition) and sets no extend mode, like any other deterministic plot.
C16_AffectedAreaMono ==
    (ConfigReturned /\ config.setup.simulation_type = "deterministic") =>
        IF config.setup.plot_variable = "affected_area_mono"
        THEN /\ config.n_levels = 1 /\ config.extend = "none"
             /\ Len(config.colors) = 1
        ELSE /\ config.n_levels
                  = (IF config.setup.input_variable = "concentration"
                     THEN 8 ELSE 9)
             /\ config.extend = None

\* a monochrome affected-area configuration of a deposition field
C16_Witness ==
    /\ ConfigReturned
    /\ config.setup.simulation_type = "deterministic"
    /\ config.setup.plot_variable = "affected_area_mono"
    /\ config.setup.input_variable = "deposition"
    /\ config.n_levels = 1 /\ config.extend = "none"

\* text lbl is text txt with only its first character upper-cased
FirstUpperOnly(txt, lbl) ==
    /\ Len(lbl) = Len(txt)
    /\ txt # "" =>
          /\ SubSeq(lbl, 2, Len(lbl)) = SubSeq(txt, 2, Len(txt))
          /\ LET c == SubSeq(txt, 1, 1)
                 d == SubSeq(lbl, 1, 1)
             IN  \/ \E k \in 1..Len(Lower) :
                       c = SubSeq(Lower, k, k) /\ d = SubSeq(Upper, k, k)
                 \/ (\A k \in 1..Len(Lower) : c # SubSeq(Lower, k, k)) /\ d = c

\* the resolved texts of a returned configuration, with the text the
\* configuration carries for each
LabelPairs ==
    LET r == config.resolved
        l == config.labels
    IN  { <<r.top.tl, l.top.tl>>,
          <<r.right_top.title, l.right_top.title>>,
          <<r.right_middle.title, l.right_middle.title>>,
          <<r.right_middle.title_unit, l.right_middle.title_unit>>,
          <<r.right_middle.unit, l.right_middle.unit>>,
          <<r.bottom.model_info_det, l.bottom.model_info_det>>,
          <<r.bottom.model_info_ens, l.bottom.model_info_ens>>,
          <<r.bottom.copyright, l.bottom.copyright>> }
    \cup { <<r.right_top.lines[k], l.right_top.lines[k]>> :
              k \in 1..Len(r.right_top.lines) }

\* the resolved model-info text of the configuration's simulation kind
ResolvedModelInfo ==
    IF config.setup.simulation_type = "deterministic"
    THEN config.resolved.bottom.model_info_det
    ELSE config.resolved.bottom.model_info_ens

\* C17: in every returned configuration each label, each right-top line
\* and the model-info text drawn by fill_box_bottom is its resolved text
\* with only the first character upper-cased; capitalize is idempotent
\* and returns the empty string unchanged.
C17_Original ==
    ConfigReturned =>
        /\ Len(config.labels.right_top.lines)
              = Len(config.resolved.right_top.lines)
        /\ \A pr \in LabelPairs :
              /\ FirstUpperOnly(pr[1], pr[2])
              /\ capitalize(pr[2]) = pr[2]
        /\ FirstUpperOnly(ResolvedModelInfo, config.model_info)
        /\ capitalize("") = ""

\* ---- the member-count line ----

CloudStatistics ==
    {"cloud_arrival_time", "cloud_departure_time",
     "cloud_occurrence_probability"}

ThinSlash == "$\\,/\\,$"

RightTopLines == config.labels.right_top.lines

\* line is the member-count entry of setup su: the threshold as given,
\* the number of members, and (threshold or 1) / (members or 1) as the
\* nearest whole percentage
MemberCountText(line, su) ==
    LET shown == IF su.ens_param_mem_min.none THEN "None"
                 ELSE IntToStr(su.ens_param_mem_min.v)
        n_min == IF su.ens_param_mem_min.none \/ su.ens_param_mem_min.v = 0
                 THEN 1 ELSE su.ens_param_mem_min.v
        n_tot == IF su.n_members = 0 THEN 1 ELSE su.n_members
    IN  \E p \in 0..(100 * n_min) :
           /\ 2 * Abs(100 * n_min - p * n_tot) <= n_tot
           /\ line = "No. members:\tmin. " \o shown \o ThinSlash
                        \o IntToStr(su.n_members)
                        \o " (" \o IntToStr(p) \o "%)"

\* C18 as stated: the right-top lines of an ensemble-probability
\* configuration contain a member-count entry '{n_min}/{n_total}
\* ({percentage})', which for 21 members and threshold 10 reads
\* '10/21 (48%)' (the slash being the one the code writes).
C18_Original ==
    (/\ ConfigReturned
     /\ config.setup.simulation_type = "ensemble"
     /\ config.setup.ens_variable = "probability")
    => /\ \E k \in 1..Len(RightTopLines) :
             Find(RightTopLines[k], ThinSlash, 1) > 0
       /\ (config.setup.n_members = 21
           /\ config.setup.ens_param_mem_min = IntOf(10))
          => \E k \in 1..Len(RightTopLines) :
                Find(RightTopLines[k],
                     "10" \o ThinSlash \o "21 (48%)", 1) > 0

\* C18 amended: the configurations of cloud_arrival_time,
\* cloud_departure_time and cloud_occurrence_probability carry, as their
\* last right-top line, the member-count entry 'No. members:\tmin.
\* {ens_param_mem_min}$\,/\,${n_total} ({percentage})', the percentage
\* being (ens_param_mem_min or 1) / (n_total or 1) as a whole percent;
\* with 21 members and threshold 10 it reads 'min. 10$\,/\,$21 (48%)'.
\* The configuration of 'probability' (and of every other statistic)
\* has no member-count entry.
C18_MemberCountLine ==
    (ConfigReturned /\ config.setup.simulation_type = "ensemble") =>
        IF config.setup.ens_variable \in CloudStatistics
        THEN /\ Len(RightTopLines) >= 3
             /\ MemberCountText(RightTopLines[Len(RightTopLines)],
                                config.setup)
             /\ (config.setup.n_members = 21
                 /\ config.setup.ens_param_mem_min = IntOf(10))
                => RightTopLines[Len(RightTopLines)]
                      = "No. members:\tmin. 10$\\,/\\,$21 (48%)"
        ELSE \A k \in 1..Len(RightTopLines) :
                Find(RightTopLines[k], ThinSlash, 1) = 0

\* the cloud occurrence probability of 21 members with threshold 10
C18_Witness ==
    /\ ConfigReturned
    /\ config.setup.ens_variable = "cloud_occurrence_probability"
    /\ config.setup.n_members = 21
    /\ config.setup.ens_param_mem_min = IntOf(10)
    /\ RightTopLines[Len(RightTopLines)]
          = "No. members:\tmin. 10$\\,/\\,$21 (48%)"

-----------------------------------------------------------------------------
(* Rendering: the text boxes and the markers of a plot                     *)
(*   plots.py  fill_box_*, plot_add_text_boxes, plot_add_markers           *)

RECURSIVE Pow10(_)
Pow10(k) == IF k <= 0 THEN 1 ELSE 10 * Pow10(k - 1)

\* the number of decimal digits of a positive int
RECURSIVE NumDigits(_)
NumDigits(m) == IF m < 10 THEN 1 ELSE 1 + NumDigits(m \div 10)

\* a field maximum: NaN for a field of NaNs only, else the positive value
\* m * 10^e
FieldNaN == [nan |-> TRUE, m |-> 0, e |-> 0]
FieldVal(m, e) == [nan |-> FALSE, m |-> m, e |-> e]

\* the decade of x = m * 10^e: the k with 10^k <= x < 10^(k+1)
Decade(x) == NumDigits(x.m) - 1 + x.e

\* i in decimal digits, zero-padded on the left to w digits
ZeroPad(i, w) == Rep("0", w - Len(IntToStr(i))) \o IntToStr(i)

\* f"{x:.{d}f}" for a positive x whose decade is at most 2 - d
format_f(x, d) ==
    LET sh == x.e + d
        N  == IF sh >= 0 THEN x.m * Pow10(sh)
              ELSE round_half_even(x.m, Pow10(-sh))
    IN  IntToStr(N \div Pow10(d))
          \o (IF d = 0 THEN "" ELSE "." \o ZeroPad(N % Pow10(d), d))

\* f"{x:.2E}" for a positive x
format_2E(x) ==
    LET nd == NumDigits(x.m)
        N0 == IF nd <= 3 THEN x.m * Pow10(3 - nd)
              ELSE round_half_even(x.m, Pow10(nd - 3))
        N  == IF N0 = 1000 THEN 100 ELSE N0
        E  == IF N0 = 1000 THEN Decade(x) + 1 ELSE Decade(x)
    IN  Digit(N \div 100) \o "." \o ZeroPad(N % 100, 2) \o "E"
          \o (IF E < 0 THEN "-" ELSE "+") \o ZeroPad(Abs(E), 2)

Scientific == 99

\* the format with five decimals for every maximum below 0.01
field_max_decimals_below(k) ==
    IF k < -2 THEN 5
    ELSE IF k <= 2 THEN 2 - k
    ELSE Scientific

\* plots.py 501-514: the number of decimals by the decade of the field
\* maximum, or Scientific for the last branch
field_max_decimals(k) ==
    IF -3 <= k /\ k <= 2 THEN 2 - k ELSE Scientific

\* plots.py 497-514: s_val
format_field_max(x) ==
    IF x.nan THEN "NaN"
    ELSE LET d == field_max_decimals(Decade(x))
         IN  IF d = Scientific THEN format_2E(x) ELSE format_f(x, d)

\* a draw call: the axes it is made on, the method, the text or the
\* marker it draws, and its offsets
Draw(on, c, what, dx, dy) ==
    [on |-> on, call |-> c, what |-> what, dx |-> dx, dy |-> dy]

\* the labels and the metadata the boxes of the plot show
RenderConfig ==
    create_plot_config(WordTable("FLEXPART"),
        [input_variable |-> "concentration", integrate |-> FALSE,
         simulation_type |-> "deterministic", plot_variable |-> "auto",
         ens_variable |-> "other", ens_param_mem_min |-> IntNone,
         n_members |-> 0])
MaxLabel  == "Max."
SiteLabel == "Site"
ReleaseSiteName == "Goesgen"

\* fill_box_top
fill_box_top(pl) ==
    << Draw("top", "text", RenderConfig.labels.top.tl, RNone, RNone) >>

\* fill_box_right_top
fill_box_right_top(pl) ==
    << Draw("right_top", "text", RenderConfig.labels.right_top.title,
            RNone, RNone),
       Draw("right_top", "text_block_hfill", "lines", RNone, R(-4, 1)) >>

\* the colour boxes of the legend, the last colour first
legend_color_rects(pl, dy0_boxes, dy_line) ==
    [k \in 1..pl.n_colors |->
        Draw("right_middle", "color_rect", "color", R(-10, 1),
             RSub(dy0_boxes, RMul(R(k - 1, 1), dy_line)))]

\* fill_box_right_middle
fill_box_right_middle(pl) ==
    LET dy_line         == R(5, 2)
        w_legend_box    == R(4, 1)
        h_legend_box    == R(2, 1)
        dx_legend_box   == R(-10, 1)
        dx_legend_label == R(-3, 1)
        dx_marker       == RAdd(dx_legend_box, RMul(RHalf, w_legend_box))
        dx_marker_label == RSub(dx_legend_label, RHalf)
        dy0_labels      == R(-5, 1)
        dy0_boxes       == RSub(dy0_labels, RMul(R(4, 5), h_legend_box))
        dy0_markers     == RSub(dy0_boxes,
                                RMul(dy_line,
                                     RSub(R(pl.n_labels, 1), R(3, 10))))
        dy0_site        == IF pl.mark_field_max
                           THEN RSub(dy0_markers, dy_line) ELSE dy0_markers
    IN  << Draw("right_middle", "text",
                RenderConfig.labels.right_middle.title_unit, RNone, RNone),
           Draw("right_middle", "text_block", "legend_labels",
                dx_legend_label, dy0_labels) >>
        \o legend_color_rects(pl, dy0_boxes, dy_line)
        \o (IF pl.mark_field_max
            THEN << Draw("right_middle", "marker", "max", dx_marker,
                         RSub(dy0_markers, R(7, 10))),
                    Draw("right_middle", "text",
                         MaxLabel \o ": " \o format_field_max(pl.fld_max),
                         dx_marker_label, dy0_markers) >>
            ELSE <<>>)
        \o (IF pl.mark_release_site
            THEN << Draw("right_middle", "marker", "site", dx_marker,
                         RSub(dy0_site, R(7, 10))),
                    Draw("right_middle", "text",
                         SiteLabel \o ": " \o ReleaseSiteName,
                         dx_marker_label, dy0_site) >>
            ELSE <<>>)

\* fill_box_right_bottom
fill_box_right_bottom(pl) ==
    << Draw("right_bottom", "text", "Release", RNone, RNone),
       Draw("right_bottom", "text_blocks_hfill", "info_blocks",
            RNone, R(-4, 1)) >>

\* fill_box_bottom
fill_box_bottom(pl) ==
    << Draw("bottom", "text", RenderConfig.model_info, R(-7, 10), RHalf),
       Draw("bottom", "text", RenderConfig.labels.bottom.copyright,
            R(7, 10), RHalf) >>

\* plot_add_markers without the test for a field of NaNs only
plot_add_markers_always(pl) ==
    [draws |->
        (IF pl.mark_release_site
         THEN << Draw("map", "marker", "site", RNone, RNone) >> ELSE <<>>)
        \o (IF pl.mark_field_max
            THEN << Draw("map", "marker", "max", RNone, RNone) >> ELSE <<>>),
     warnings |-> <<>>]

\* plot_add_markers: the markers drawn on the map and the warnings
plot_add_markers(pl) ==
    [draws |->
        (IF pl.mark_release_site
         THEN << Draw("map", "marker", "site", RNone, RNone) >> ELSE <<>>)
        \o (IF pl.mark_field_max /\ ~pl.fld_max.nan
            THEN << Draw("map", "marker", "max", RNone, RNone) >> ELSE <<>>),
     warnings |->
        IF pl.mark_field_max /\ pl.fld_max.nan
        THEN << "skip maximum marker (all-nan field)" >> ELSE <<>>]

\* the field maxima rendered: mantissas of three to five digits that no
\* format rounds at a tie, over the decades from 1e-7 upward
MaxFieldExp == 2
Mantissas == {1, 456, 999, 1234, 4567, 9996, 99996}
FieldMaxima ==
    {FieldNaN} \cup { FieldVal(m, e) : m \in Mantissas, e \in (-7)..MaxFieldExp }

\* the number of legend labels and colours of the plots rendered
LegendSizes == {1, 8}

InitRender ==
    /\ pc = "fields"
    /\ RenderIdle /\ BaselineIdle /\ RunIdle
    /\ LayoutIdle /\ LocIdle /\ TextIdle /\ LevelIdle

\* BoxedPlot(field_lst, configs, map_conf_lst)
BoxedPlot(fm, n, mfm, mrs) ==
    /\ pc = "fields"
    /\ plot' = [fld_max |-> fm, n_labels |-> n, n_colors |-> n,
                mark_field_max |-> mfm, mark_release_site |-> mrs]
    /\ pc' = "plot"
    /\ UNCHANGED <<run_vars, draws, warnings, baseline_vars, layout_vars,
                   loc_vars, text_vars, level_vars>>

\* plot_add_text_boxes(plot)
PlotAddTextBoxes ==
    /\ pc = "plot"
    /\ draws' = draws \o fill_box_top(plot) \o fill_box_right_top(plot)
                      \o fill_box_right_middle(plot)
                      \o fill_box_right_bottom(plot) \o fill_box_bottom(plot)
    /\ pc' = "boxes"
    /\ UNCHANGED <<run_vars, plot, warnings, baseline_vars, layout_vars,
                   loc_vars, text_vars, level_vars>>

\* plot_add_markers(plot)
PlotAddMarkers ==
    /\ pc = "boxes"
    /\ LET r == plot_add_markers(plot)
       IN  /\ draws' = draws \o r.draws
           /\ warnings' = warnings \o r.warnings
    /\ pc' = "markers"
    /\ UNCHANGED <<run_vars, plot, baseline_vars, layout_vars, loc_vars,
                   text_vars, level_vars>>

NextRender ==
    \/ \E fm \in FieldMaxima, n \in LegendSizes, mfm \in BOOLEAN,
          mrs \in BOOLEAN : BoxedPlot(fm, n, mfm, mrs)
    \/ PlotAddTextBoxes
    \/ PlotAddMarkers

SpecRender == InitRender /\ [][NextRender]_vars

-----------------------------------------------------------------------------
(* Claims on the rendering of the boxes and the markers                    *)

BoxesDrawn == pc \in {"boxes", "markers"}

\* the positions of the text calls of the right-middle box that show the
\* field maximum
MaxTextCalls ==
    { k \in 1..Len(draws) :
         /\ draws[k].on = "right_middle" /\ draws[k].call = "text"
         /\ SubSeq(draws[k].what, 1, 6) = "Max.: " }

\* the value shown for the field maximum
ShownMax ==
    LET k == CHOOSE k \in MaxTextCalls : TRUE
    IN  SubSeq(draws[k].what, 7, Len(draws[k].what))

IsScientific(s) == Find(s, "E", 1) > 0

\* the part of a formatted number before its exponent
MantissaOf(s) ==
    IF IsScientific(s) THEN SubSeq(s, 1, Find(s, "E", 1) - 1) ELSE s

\* the number of digits after the decimal point
Decimals(s) ==
    LET mt == MantissaOf(s)
    IN  IF Find(mt, ".", 1) = 0 THEN 0 ELSE Len(mt) - Find(mt, ".", 1)

\* the number of digits shown from the first non-zero digit on
SigDigits(s) ==
    LET mt == MantissaOf(s)
        nz == { k \in 1..Len(mt) : Find("123456789", SubSeq(mt, k, k), 1) > 0 }
    IN  IF nz = {} THEN 0
        ELSE LET first == CHOOSE k \in nz : \A j \in nz : k <= j
             IN  Cardinality({ k \in first..Len(mt) :
                                  SubSeq(mt, k, k) # "." })

\* the int a string of digits (with a decimal point skipped) denotes
RECURSIVE DigitsValue(_)
DigitsValue(s) ==
    IF s = "" THEN 0
    ELSE LET c == SubSeq(s, Len(s), Len(s))
             r == DigitsValue(SubSeq(s, 1, Len(s) - 1))
         IN  IF c = "." THEN r
             ELSE 10 * r + (Find("0123456789", c, 1) - 1)

\* the decimal exponent written after the E
ExponentOf(s) ==
    LET k == Find(s, "E", 1)
        v == DigitsValue(SubSeq(s, k + 2, Len(s)))
    IN  IF SubSeq(s, k + 1, k + 1) = "-" THEN -v ELSE v

\* the number s shows is x rounded to the digits shown
Near(x, s) ==
    LET N  == DigitsValue(MantissaOf(s))
        p  == (IF IsScientific(s) THEN ExponentOf(s) ELSE 0) - Decimals(s)
        t  == x.e - p
    IN  IF t >= 0 THEN N = x.m * Pow10(t)
        ELSE 2 * Abs(x.m - N * Pow10(-t)) <= Pow10(-t)

MaxShown ==
    /\ BoxesDrawn /\ plot.mark_field_max /\ ~plot.fld_max.nan
    /\ MaxTextCalls # {}

\* C19 as stated: five decimals below 0.01, one decimal fewer per decade
\* down to none from 100, scientific notation with two decimals from 1000;
\* 0.0456 shown as '0.04560', 4.56 as '4.56', 456 as '456', 45600 as
\* '4.56E+04'; at least three significant digits for every positive
\* maximum.
C19_Original ==
    (BoxesDrawn /\ plot.mark_field_max /\ ~plot.fld_max.nan) =>
        /\ MaxTextCalls # {}
        /\ LET x == plot.fld_max
               k == Decade(x)
           IN  /\ k < -2 => (~IsScientific(ShownMax)
                             /\ Decimals(ShownMax) = 5)
               /\ (-2 <= k /\ k <= 2) =>
                     (~IsScientific(ShownMax) /\ Decimals(ShownMax) = 2 - k)
               /\ k >= 3 => (IsScientific(ShownMax)
                             /\ Decimals(ShownMax) = 2)
               /\ x = FieldVal(456, -4) => ShownMax = "0.04560"
               /\ x = FieldVal(456, -2) => ShownMax = "4.56"
               /\ x = FieldVal(456, 0) => ShownMax = "456"
               /\ x = FieldVal(456, 2) => ShownMax = "4.56E+04"
               /\ SigDigits(ShownMax) >= 3

\* C19 amended: the field maximum is shown with five decimals from 0.001
\* to below 0.01, one decimal fewer per decade above that down to none
\* from 100 to below 1000, and in scientific notation with two decimals
\* from 1000 on and below 0.001; 0.0456 is shown as '0.0456', 0.00456 as
\* '0.00456', 0.000456 as '4.56E-04', 4.56 as '4.56', 456 as '456' and
\* 45600 as '4.56E+04'.  The value shown is the maximum rounded to the
\* digits shown, and every positive maximum is shown with at least three
\* significant digits.
C19_DecimalsByDecade ==
    (BoxesDrawn /\ plot.mark_field_max /\ ~plot.fld_max.nan) =>
        /\ Cardinality(MaxTextCalls) = 1
        /\ LET x == plot.fld_max
               k == Decade(x)
           IN  /\ (-3 <= k /\ k <= 2) =>
                     (~IsScientific(ShownMax) /\ Decimals(ShownMax) = 2 - k)
               /\ (k < -3 \/ k >= 3) =>
                     (IsScientific(ShownMax) /\ Decimals(ShownMax) = 2)
               /\ Near(x, ShownMax)
               /\ SigDigits(ShownMax) >= 3
               /\ x = FieldVal(456, -4) => ShownMax = "0.0456"
               /\ x = FieldVal(456, -5) => ShownMax = "0.00456"
               /\ x = FieldVal(456, -6) => ShownMax = "4.56E-04"
               /\ x = FieldVal(456, -2) => ShownMax = "4.56"
               /\ x = FieldVal(456, 0) => ShownMax = "456"
               /\ x = FieldVal(456, 2) => ShownMax = "4.56E+04"

\* the maximum 0.0456 shown in the right-middle box
C19_Witness ==
    /\ MaxShown
    /\ plot.fld_max = FieldVal(456, -4)
    /\ ShownMax = "0.0456"

\* ---- a field of NaNs only ----

Rendered == pc = "markers"

AllNaNWithMaxMark == Rendered /\ plot.mark_field_max /\ plot.fld_max.nan

\* the positions of the marker calls for marker mk on axes ax
MarkerCalls(ax, mk) ==
    { k \in 1..Len(draws) :
         draws[k].on = ax /\ draws[k].call = "marker" /\ draws[k].what = mk }

BoxNames == {"top", "right_top", "right_middle", "right_bottom", "bottom"}

\* every text box has been filled
AllBoxesDrawn ==
    \A b \in BoxNames : \E k \in 1..Len(draws) : draws[k].on = b

\* the release-site marker is on the map and in the legend when asked for
SiteMarkerDrawn ==
    plot.mark_release_site =>
        /\ Cardinality(MarkerCalls("map", "site")) = 1
        /\ Cardinality(MarkerCalls("right_middle", "site")) = 1

\* C20 as stated: rendering a field of NaNs only with mark_field_max set
\* completes, emits a warning and makes no marker draw call for the field
\* maximum, neither on the map nor in a text box; the release-site marker
\* and all text boxes are still drawn.
C20_Original ==
    AllNaNWithMaxMark =>
        /\ Len(warnings) >= 1
        /\ MarkerCalls("map", "max") = {}
        /\ \A b \in BoxNames : MarkerCalls(b, "max") = {}
        /\ SiteMarkerDrawn
        /\ AllBoxesDrawn

\* C20 amended: rendering a field of NaNs only with mark_field_max set
\* completes, emits the warning 'skip maximum marker (all-nan field)' and
\* makes no marker draw call for the field maximum on the map; the legend
\* in the right-middle box still draws the maximum marker, labelled
\* 'Max.: NaN'.  The release-site marker (when asked for) and all text
\* boxes are drawn.  A field with a maximum gets the marker on the map
\* and in the legend and no warning.
C20_MapMarkerSkipped ==
    (Rendered /\ plot.mark_field_max) =>
        /\ AllBoxesDrawn
        /\ SiteMarkerDrawn
        /\ Cardinality(MarkerCalls("right_middle", "max")) = 1
        /\ IF plot.fld_max.nan
           THEN /\ warnings = << "skip maximum marker (all-nan field)" >>
                /\ MarkerCalls("map", "max") = {}
                /\ LET k == CHOOSE k \in MarkerCalls("right_middle", "max") :
                               TRUE
                   IN  /\ draws[k + 1].call = "text"
                       /\ draws[k + 1].what = "Max.: NaN"
           ELSE /\ warnings = <<>>
                /\ Cardinality(MarkerCalls("map", "max")) = 1

\* a field of NaNs only rendered with both markers asked for
C20_Witness ==
    /\ AllNaNWithMaxMark
    /\ plot.mark_release_site
    /\ Len(warnings) = 1
    /\ MarkerCalls("right_middle", "max") # {}
    /\ MarkerCalls("map", "max") = {}

-----------------------------------------------------------------------------
(* Claims on the member-count line: the numbers printed and the percentage *)

\* the text of s between the first before and the first after following it
Between(s, before, after) ==
    LET i == Find(s, before, 1)
        a == i + Len(before)
        j == IF i = 0 THEN 0 ELSE Find(s, after, a)
    IN  IF i = 0 \/ j = 0 THEN "" ELSE SubSeq(s, a, j - 1)

\* s is a non-empty string of decimal digits
IsDigits(s) ==
    /\ s # ""
    /\ \A k \in 1..Len(s) : Find("0123456789", SubSeq(s, k, k), 1) > 0

MemberLine == RightTopLines[Len(RightTopLines)]

PrintedMin   == Between(MemberLine, "min. ", ThinSlash)
PrintedTotal == Between(MemberLine, ThinSlash, " (")
PrintedPct   == Between(MemberLine, " (", "%)")

\* C30: in the member-count line of the cloud statistics, the minimum
\* printed before the slash is the numerator of the printed percentage
\* and the total printed after the slash is its denominator, for every
\* ens_param_mem_min (unset and 0 included) and every member list (empty
\* included).
C30_Original ==
    (/\ ConfigReturned
     /\ config.setup.simulation_type = "ensemble"
     /\ config.setup.ens_variable \in CloudStatistics)
    => /\ IsDigits(PrintedMin) /\ IsDigits(PrintedTotal)
       /\ IsDigits(PrintedPct)
       /\ LET a == DigitsValue(PrintedMin)
              b == DigitsValue(PrintedTotal)
              q == DigitsValue(PrintedPct)
          IN  /\ b > 0
              /\ 2 * Abs(100 * a - q * b) <= b

-----------------------------------------------------------------------------
(* Claims on the shape of the colors argument of text_blocks               *)

TbCalled == pc = "drawn" /\ call.op = "text_blocks"

\* the colors argument has the shape of blocks: as many entries as blocks,
\* each None or as long as its block
TbShapeOk ==
    \/ call.colors.none
    \/ /\ Len(call.colors.v) = Len(call.blocks)
       /\ \A i \in 1..Len(call.blocks) :
             \/ call.colors.v[i].none
             \/ Len(call.colors.v[i].v) = Len(call.blocks[i])

\* C27: text_blocks rejects with a ValueError a colors argument whose
\* shape differs from blocks (another number of blocks, or a colour list
\* of another length than its block) and draws no line then; None entries
\* for a block or a line are accepted and replaced by the default colour.
C27_Original ==
    TbCalled =>
        IF TbShapeOk
        THEN /\ err = None
             /\ Len(texts) = Len(Concat(call.blocks))
             /\ \A k \in 1..Len(texts) : texts[k].color # None
        ELSE /\ err = "ValueError"
             /\ texts = <<>>

-----------------------------------------------------------------------------
(* Claims on the release-info text of the bottom-right box                 *)

InfoDrawn == pc = "drawn" /\ call.op = "fill_box_bottom_right"

\* the authored lines of the info text, top to bottom
InfoLines == Concat(call.blocks)

\* the draw call of the left part of the k-th authored line: the title is
\* drawn first, then the left parts from the last authored line up
InfoLeft(k) == texts[1 + (Len(InfoLines) + 1 - k)]

\* the initial offset: dy0 = dy_line = 2.75 unit distances above the
\* anchor of 'b', which lies one unit distance above the bottom edge
InfoBottomY == RAdd(box.dy, RMul(R(11, 4), box.dy))

-----------------------------------------------------------------------------
(* The text baseline of a box (for debugging)                              *)
(*   plot.py  FlexAxesTextBox.__init__, show_baseline, text                *)

\* a dict of keyword arguments for ax.axhline: an absent key is None
StyleKw(color_, linewidth_, linestyle_) ==
    [color |-> color_, linewidth |-> linewidth_, linestyle |-> linestyle_]

NoStyle == StyleKw(None, RNone, None)

\* plot.py 732-735
baseline_kwargs_default == StyleKw("black", R(1, 2), None)

\* dict.update(kwargs)
dict_update(d, kw) ==
    [color     |-> IF kw.color = None THEN d.color ELSE kw.color,
     linewidth |-> IF IsNone(kw.linewidth) THEN d.linewidth ELSE kw.linewidth,
     linestyle |-> IF kw.linestyle = None THEN d.linestyle ELSE kw.linestyle]

\* plot.py 730-736: _baseline_kwargs is bound to the dict that
\* _baseline_kwargs_default names
BaselineInit ==
    [show |-> FALSE, kwargs_default |-> baseline_kwargs_default,
     kwargs |-> baseline_kwargs_default]

\* show_baseline: _baseline_kwargs is bound to the default dict again and
\* updated in place, which updates the one dict both attributes name
show_baseline(bs, val, kw) ==
    LET d == dict_update(bs.kwargs_default, kw)
    IN  [show |-> val, kwargs_default |-> d, kwargs |-> d]

\* the style arguments passed to show_baseline
StyleArgs ==
    { NoStyle, StyleKw("red", RNone, None), StyleKw(None, R(2, 1), None),
      StyleKw(None, RNone, "dashed") }

MaxBaselineCalls == 2

InitBaseline ==
    /\ pc = "baseline"
    /\ box \in Boxes
    /\ texts = <<>> /\ call = None /\ err = None
    /\ baseline = BaselineInit
    /\ baseline_calls = <<>>
    /\ axhlines = <<>>
    /\ LayoutIdle /\ LocIdle /\ LevelIdle /\ RenderIdle /\ RunIdle

\* box.show_baseline(val, **kw)
ShowBaseline(val, kw) ==
    /\ pc = "baseline"
    /\ Len(baseline_calls) < MaxBaselineCalls
    /\ baseline' = show_baseline(baseline, val, kw)
    /\ baseline_calls' = Append(baseline_calls, [val |-> val, kw |-> kw])
    /\ UNCHANGED <<run_vars, pc, axhlines, text_vars, layout_vars, loc_vars,
                   level_vars, render_vars>>

\* box.text('bl', 's') on the box: the text, and the line at its baseline
\* when the baseline is shown (plot.py 827-831)
BaselineText ==
    /\ pc = "baseline"
    /\ LET r == text(box, PyStr("bl"), "s", RNone, RNone, NoKw)
       IN  /\ err' = r.err
           /\ texts' = Append(texts, r.draw)
           /\ axhlines' = IF baseline.show
                          THEN Append(axhlines, [y |-> r.draw.y,
                                                 kwargs |-> baseline.kwargs])
                          ELSE axhlines
    /\ call' = [op |-> "text", loc |-> PyStr("bl"), dx |-> RNone,
                dy |-> RNone, kw |-> NoKw]
    /\ pc' = "drawn"
    /\ UNCHANGED <<run_vars, box, baseline, baseline_calls, layout_vars,
                   loc_vars, level_vars, render_vars>>

NextBaseline ==
    \/ \E val \in BOOLEAN, kw \in StyleArgs : ShowBaseline(val, kw)
    \/ BaselineText

SpecBaseline == InitBaseline /\ [][NextBaseline]_vars

\* the last show_baseline call made
LastBaselineCall == baseline_calls[Len(baseline_calls)]

\* C29: after any sequence of show_baseline calls the default baseline
\* style is still {color: black, linewidth: 0.5}; a call without style
\* arguments uses exactly the default style, and the style arguments of
\* earlier calls do not persist into later ones.
C29_Original ==
    (pc \in {"baseline", "drawn"} /\ baseline_calls # <<>>) =>
        /\ baseline.kwargs_default = StyleKw("black", R(1, 2), None)
        /\ baseline.kwargs
              = dict_update(StyleKw("black", R(1, 2), None),
                            LastBaselineCall.kw)
        /\ (pc = "drawn" /\ LastBaselineCall.val) =>
              /\ Len(axhlines) = 1
              /\ axhlines[1].kwargs
                    = dict_update(StyleKw("black", R(1, 2), None),
                                  LastBaselineCall.kw)

-----------------------------------------------------------------------------
(* FlexPlotter.run and FlexPlotConcentration.save                          *)
(*   plot.py  FlexPlotter, FlexPlotConcentration.__init__, _run, save      *)

\* s[i - 1:i - 1 + n]: the n characters of s from position i on, as far
\* as s reaches
Chars(s, i, n) ==
    IF i > Len(s) THEN ""
    ELSE SubSeq(s, i, IF i + n - 1 > Len(s) THEN Len(s) ELSE i + n - 1)

\* str.lower() of one character
lower(c) ==
    LET k == Find(Upper, c, 1)
    IN  IF Len(c) = 1 /\ k > 0 THEN SubSeq(Lower, k, k) ELSE c

\* str.lower()
RECURSIVE lower_str(_)
lower_str(s) ==
    IF s = "" THEN ""
    ELSE lower(SubSeq(s, 1, 1)) \o lower_str(SubSeq(s, 2, Len(s)))

\* the position of the last occurrence of c in s; 0 if none
LastIndex(s, c) ==
    LET ks == { k \in 1..Len(s) : SubSeq(s, k, k) = c }
    IN  IF ks = {} THEN 0 ELSE CHOOSE k \in ks : \A j \in ks : j <= k

\* os.path.splitext(path)[1]: from the last dot of the last path
\* component on, unless that dot leads the component
splitext_ext(path) ==
    LET slash == LastIndex(path, "/")
        dot   == LastIndex(path, ".")
    IN  IF dot > slash + 1 THEN SubSeq(path, dot, Len(path)) ELSE ""

\* a field key: one value of each variable
FieldKey(time_ind, level_ind) ==
    [age_ind |-> 0, relpt_ind |-> 0, time_ind |-> time_ind,
     level_ind |-> level_ind, species_id |-> 1, field_type |-> "3D"]

KeyNames ==
    << "age_ind", "relpt_ind", "time_ind", "level_ind", "species_id",
       "field_type" >>

\* getattr(key, name) as the text str.format writes
KeyText(key, name) ==
    CASE name = "age_ind"    -> IntToStr(key.age_ind)
      [] name = "relpt_ind"  -> IntToStr(key.relpt_ind)
      [] name = "time_ind"   -> IntToStr(key.time_ind)
      [] name = "level_ind"  -> IntToStr(key.level_ind)
      [] name = "species_id" -> IntToStr(key.species_id)
      [] name = "field_type" -> key.field_type

\* format(value, spec) for the specs '' and '02d'
format_value(text_, spec) ==
    IF spec = "02d" THEN Rep("0", 2 - Len(text_)) \o text_ ELSE text_

\* str.format(**key._asdict()) from position i of the format string on:
\* '{{' and '}}' give a brace, '{name}' and '{name:spec}' the value
RECURSIVE format_from(_, _, _)
format_from(fmt, key, i) ==
    IF i > Len(fmt) THEN ""
    ELSE LET c == SubSeq(fmt, i, i)
         IN  IF c = "{" /\ Chars(fmt, i + 1, 1) = "{"
             THEN "{" \o format_from(fmt, key, i + 2)
             ELSE IF c = "}"
             THEN "}" \o format_from(fmt, key, i + 2)
             ELSE IF c = "{"
             THEN LET j     == Find(fmt, "}", i)
                      inner == SubSeq(fmt, i + 1, j - 1)
                      parts == Split1(inner, ":")
                  IN  format_value(KeyText(key, parts[1]),
                                   IF Len(parts) = 2 THEN parts[2] ELSE "")
                         \o format_from(fmt, key, j + 1)
             ELSE c \o format_from(fmt, key, i + 1)

\* format_file_path
format_file_path(fmt, key) == format_from(fmt, key, 1)

\* re.compile(r'\{' + name + r'(:.*)?\}').search(fmt)
rx_search(name, fmt) ==
    \E i \in 1..Len(fmt) :
       /\ Chars(fmt, i, Len(name) + 1) = "{" \o name
       /\ LET k == i + Len(name) + 1
          IN  \/ Chars(fmt, k, 1) = "}"
              \/ Chars(fmt, k, 1) = ":" /\ Find(fmt, "}", k + 1) > 0

\* set(getattr(self.data, f'{name}s')(**restrictions))
values_of(keys, name) == { KeyText(keys[k], name) : k \in 1..Len(keys) }

\* _check_file_path_fmt__core(name): None, or the exception.  The message
\* of the Exception reads fmt_key, a name bound nowhere, so building it
\* fails with NameError.
check_file_path_fmt_core(keys, fmt, name) ==
    IF Cardinality(values_of(keys, name)) > 1 /\ ~rx_search(name, fmt)
    THEN "NameError" ELSE None

\* check_file_path_fmt: the six checks in their order
check_file_path_fmt(keys, fmt) ==
    LET bad == { k \in 1..Len(KeyNames) :
                    check_file_path_fmt_core(keys, fmt, KeyNames[k]) # None }
    IN  IF bad = {} THEN None
        ELSE check_file_path_fmt_core(keys, fmt,
                 KeyNames[CHOOSE k \in bad : \A j \in bad : k <= j])

\* the formats fig.savefig writes: those of the backends of matplotlib
\* and, where the imaging library is installed, its formats
SavefigFormats(pillow) ==
    {"png", "pdf", "svg"} \cup (IF pillow THEN {"jpg"} ELSE {})

\* rcParams['savefig.format']
SavefigDefault == "png"

\* fig.savefig(file_path, ...) as save calls it, without a format
\* argument: the format is that of the extension of the path; a path
\* without extension gets the default format and its extension
savefig(file_path, pillow) ==
    LET ext == lower_str(splitext_ext(file_path))
        f   == IF ext = "" THEN SavefigDefault ELSE SubSeq(ext, 2, Len(ext))
        out == IF ext = "" THEN file_path \o "." \o f ELSE file_path
    IN  IF f \in SavefigFormats(pillow)
        THEN [err |-> None, file |-> [path |-> out, format |-> f]]
        ELSE [err |-> "ValueError", file |-> None]

\* FlexPlotConcentration.save: the file written, the exception, and
\* whether plt.close was reached
save(file_path, format, pillow) ==
    LET ext == lower_str(splitext_ext(file_path))
    IN  IF format = None /\ ext \notin {".pdf", ".png"}
        THEN [err |-> "ValueError", file |-> None, closed |-> FALSE]
        ELSE LET w == savefig(file_path, pillow)
             IN  [err |-> w.err, file |-> w.file, closed |-> w.err = None]

\* the values the variables take in the data: one or two time steps and
\* one or two levels, the other variables having one value
TimeIndSets  == { {1}, {1, 11} }
LevelIndSets == { {2}, {2, 12} }

\* data.field_keys(**restrictions): the keys in ascending order
field_keys(ts, ls) ==
    LET pairs == { <<t, l>> : t \in ts, l \in ls }
        rank(pr) == Cardinality({ q \in pairs :
                       q[1] < pr[1] \/ (q[1] = pr[1] /\ q[2] <= pr[2]) })
    IN  [k \in 1..Cardinality(pairs) |->
            LET pr == CHOOSE q \in pairs : rank(q) = k
            IN  FieldKey(pr[1], pr[2])]

\* output path formats handed to run
PathFormats ==
    { "plot.png", "plot_{time_ind}.png", "plot_{time_ind}_{level_ind}.png",
      "plot_{time_ind:02d}_{level_ind:02d}.pdf",
      "plot_{time_ind}{level_ind}.png", "plot_{{time_ind}}_{level_ind}.png",
      "plot_{time_ind}_{level_ind}.jpg" }

\* paths and formats handed to save directly
SavePaths   == { "a.png", "out/a.PDF", "a.svg", "a.jpg", "a" }
SaveFormats == { None, "png", "pdf" }

InitRun ==
    /\ pc = "start"
    /\ RunIdle
    /\ LayoutIdle /\ LocIdle /\ TextIdle /\ LevelIdle /\ RenderIdle
    /\ BaselineIdle

\* FlexPlotter(type_).run(data, file_path_fmt) up to its loop: the type
\* and the field type are tested and the path format is checked
Run(type_, has_3d, ts, ls, fmt) ==
    /\ pc = "start"
    /\ LET keys == field_keys(ts, ls)
           e    == IF type_ # "concentration" THEN "NotImplementedError"
                   ELSE IF ~has_3d THEN "Exception"
                   ELSE check_file_path_fmt(keys, fmt)
       IN  /\ run' = [op |-> "run", type_ |-> type_, has_3d |-> has_3d,
                      keys |-> keys, fmt |-> fmt, i_key |-> 1, err |-> e]
           /\ pc' = IF e # None THEN "failed"
                    ELSE IF Len(keys) = 0 THEN "done" ELSE "loop"
    /\ UNCHANGED <<figs, files, yielded, words, layout_vars, loc_vars,
                   text_vars, level_vars, render_vars, baseline_vars>>

\* one turn of the loop of _run_concentration: the path is formatted, the
\* plot is created (which opens its figure) and saved, the path is yielded
PlotKey ==
    /\ pc = "loop"
    /\ \E pillow \in BOOLEAN :
       LET key       == run.keys[run.i_key]
           file_path == format_file_path(run.fmt, key)
           r         == save(file_path, None, pillow)
       IN  /\ figs' = Append(figs, IF r.closed THEN "closed" ELSE "open")
           /\ files' = IF r.err = None THEN Append(files, r.file) ELSE files
           /\ yielded' = IF r.err = None THEN Append(yielded, file_path)
                         ELSE yielded
           /\ run' = [run EXCEPT !.err = r.err,
                                 !.i_key = IF r.err = None THEN @ + 1 ELSE @]
           /\ pc' = IF r.err # None THEN "failed"
                    ELSE IF run.i_key = Len(run.keys) THEN "done" ELSE "loop"
    /\ UNCHANGED <<words, layout_vars, loc_vars, text_vars, level_vars,
                   render_vars, baseline_vars>>

\* FlexPlotConcentration(rlat, rlon, fld, attrs): _run opens the figure,
\* then draws the map and fills the boxes; each of these steps may raise
NewPlot(raises, pillow) ==
    /\ pc = "start"
    /\ run' = [op |-> "plot", pillow |-> pillow,
               err |-> IF raises THEN "Exception" ELSE None]
    /\ figs' = Append(figs, "open")
    /\ pc' = IF raises THEN "failed" ELSE "plotted"
    /\ UNCHANGED <<files, yielded, words, layout_vars, loc_vars, text_vars,
                   level_vars, render_vars, baseline_vars>>

\* plot.save(file_path, format)
Save(file_path, format) ==
    /\ pc = "plotted"
    /\ LET r == save(file_path, format, run.pillow)
       IN  /\ run' = [op |-> "save", file_path |-> file_path,
                      format |-> format, pillow |-> run.pillow,
                      err |-> r.err]
           /\ figs' = [figs EXCEPT ![Len(figs)] =
                          IF r.closed THEN "closed" ELSE "open"]
           /\ files' = IF r.err = None THEN Append(files, r.file) ELSE files
    /\ pc' = "saved"
    /\ UNCHANGED <<yielded, words, layout_vars, loc_vars, text_vars,
                   level_vars, render_vars, baseline_vars>>

NextRun ==
    \/ \E type_ \in {"concentration", "deposition"}, has_3d \in BOOLEAN,
          ts \in TimeIndSets, ls \in LevelIndSets, fmt \in PathFormats :
          Run(type_, has_3d, ts, ls, fmt)
    \/ PlotKey
    \/ \E raises \in BOOLEAN, pillow \in BOOLEAN : NewPlot(raises, pillow)
    \/ \E file_path \in SavePaths, format \in SaveFormats :
          Save(file_path, format)

SpecRun == InitRun /\ [][NextRun]_vars

\* C26: check_file_path_fmt raises its 'output file path must contain
\* format key' Exception exactly when one of the six variables takes more
\* than one value and the path format has no format key for it; otherwise
\* it returns without error.
NeedsFormatKey(keys, fmt) ==
    \E k \in 1..Len(KeyNames) :
       /\ Cardinality(values_of(keys, KeyNames[k])) > 1
       /\ ~rx_search(KeyNames[k], fmt)

\* run has made its checks of the type and the field type and has called
\* check_file_path_fmt, and no plot has been made yet
FmtChecked ==
    /\ pc \in {"loop", "done", "failed"}
    /\ run.op = "run" /\ run.type_ = "concentration" /\ run.has_3d
    /\ figs = <<>>

C26_Original ==
    FmtChecked =>
       IF NeedsFormatKey(run.keys, run.fmt)
       THEN run.err = "Exception" /\ pc = "failed"
       ELSE run.err = None /\ pc # "failed"

\* C28: in one run, whenever check_file_path_fmt accepts the path format,
\* no two field keys are formatted to the same output path and no plot
\* overwrites one saved earlier in the run; one path is yielded per field
\* key, in key order, each after its plot has been saved.
RunEnded ==
    /\ pc \in {"done", "failed"}
    /\ run.op = "run" /\ run.type_ = "concentration" /\ run.has_3d
    /\ check_file_path_fmt(run.keys, run.fmt) = None

C28_Original ==
    RunEnded =>
       /\ \A i, j \in 1..Len(run.keys) :
             i # j => format_file_path(run.fmt, run.keys[i])
                         # format_file_path(run.fmt, run.keys[j])
       /\ \A i, j \in 1..Len(files) : i # j => files[i].path # files[j].path
       /\ yielded = [k \in 1..Len(run.keys) |->
                        format_file_path(run.fmt, run.keys[k])]
       /\ Len(files) = Len(yielded)

\* C22: save(file_path) without a format takes the format from the
\* extension of the path, accepts .png and .pdf only and otherwise fails
\* with the unsupported-format error and writes no file; with a format
\* given, the extension is not checked and the figure is written in the
\* given format.
Saved == pc = "saved"

C22_Original ==
    Saved =>
       LET ext == lower_str(splitext_ext(run.file_path))
       IN  IF run.format = None
           THEN IF ext \in {".png", ".pdf"}
                THEN /\ run.err = None
                     /\ files = << [path |-> run.file_path,
                                    format |-> SubSeq(ext, 2, Len(ext))] >>
                ELSE run.err = "ValueError" /\ files = <<>>
           ELSE /\ run.err = None
                /\ Len(files) = 1
                /\ files[1].format = run.format

\* C21: the figure of a render is closed whether the render completes or
\* a step raises; no execution ends with the figure still open.
Ended == pc \in {"done", "failed", "saved"}

C21_Original ==
    Ended => \A k \in 1..Len(figs) : figs[k] = "closed"

-----------------------------------------------------------------------------
(* plot_fields, create_map_conf and the words table                        *)
(*   plots.py  create_map_conf, create_plot_config, plot_fields            *)

\* a field as create_map_conf reads it: the model of its meta data, the
\* domain and the language its setups agree on
Field(model, domain, lang) ==
    [model |-> model, domain |-> domain, lang |-> lang]

\* {**a, **b}
dict_merge(a, b) == b @@ a

conf_model_ifs   == [geo_res |-> "50m"]
conf_model_cosmo == [geo_res |-> "10m"]

conf_domain_japan ==
    [geo_res_cities |-> "50m", geo_res_rivers |-> "50m",
     min_city_pop |-> 4000000, lllat |-> 20, urlat |-> 50, lllon |-> 110,
     urlon |-> 160, ref_dist_conf |-> [dist |-> 500]]

conf_scale_continent ==
    [geo_res_cities |-> "50m", geo_res_rivers |-> "50m",
     min_city_pop |-> 300000]

conf_scale_country ==
    [geo_res_cities |-> "10m", geo_res_rivers |-> "10m", min_city_pop |-> 0,
     ref_dist_conf |-> [dist |-> 25]]

MapConfRaised == [err |-> "Exception", conf |-> None]
MapConfOf(conf) == [err |-> None, conf |-> conf]

\* the lookup with the continental COSMO configuration as the default
create_map_conf_default(field) ==
    LET conf_base == [lang |-> field.lang]
        key == <<field.model, field.domain>>
        cosmo == dict_merge(conf_base, conf_model_cosmo)
    IN  IF key = <<"cosmo1", "ch">>
        THEN MapConfOf(dict_merge(dict_merge(cosmo, conf_scale_country),
                [zoom_fact |-> R(36, 10),
                 rel_offset |-> <<R(-2, 100), R(45, 1000)>>]))
        ELSE IF key = <<"cosmo2", "ch">>
        THEN MapConfOf(dict_merge(dict_merge(cosmo, conf_scale_country),
                [zoom_fact |-> R(323, 100),
                 rel_offset |-> <<R(37, 1000), R(1065, 10000)>>]))
        ELSE IF key = <<"ifs", "auto">>
        THEN MapConfOf(dict_merge(dict_merge(conf_base, conf_model_ifs),
                                  conf_domain_japan))
        ELSE MapConfOf(dict_merge(dict_merge(cosmo, conf_scale_continent),
                                  [zoom_fact |-> R(105, 100)]))

\* create_map_conf: the configuration, or the exception raised
create_map_conf(field) ==
    LET conf_base == [lang |-> field.lang]
        key == <<field.model, field.domain>>
        cosmo == dict_merge(conf_base, conf_model_cosmo)
    IN  IF key \in {<<"cosmo1", "auto">>, <<"cosmo2", "auto">>}
        THEN MapConfOf(dict_merge(dict_merge(cosmo, conf_scale_continent),
                                  [zoom_fact |-> R(105, 100)]))
        ELSE IF key = <<"cosmo1", "ch">>
        THEN MapConfOf(dict_merge(dict_merge(cosmo, conf_scale_country),
                [zoom_fact |-> R(36, 10),
                 rel_offset |-> <<R(-2, 100), R(45, 1000)>>]))
        ELSE IF key = <<"cosmo2", "ch">>
        THEN MapConfOf(dict_merge(dict_merge(cosmo, conf_scale_country),
                [zoom_fact |-> R(323, 100),
                 rel_offset |-> <<R(37, 1000), R(1065, 10000)>>]))
        ELSE IF key = <<"ifs", "auto">>
        THEN MapConfOf(dict_merge(dict_merge(conf_base, conf_model_ifs),
                                  conf_domain_japan))
        ELSE MapConfRaised

\* the words of the table in German
WordTableDe ==
    [WordTable("FLEXPART") EXCEPT
        !.based_on = "basierend auf", !.ensemble = "Ensemble",
        !.member_pl = "Member", !.data = "Daten", !.of = "von",
        !.activity_concentration = "Aktivitaetskonzentration",
        !.concentration = "Konzentration", !.probability = "Wahrscheinlichkeit",
        !.cloud = "Wolke", !.minimum_abbr = "Min.", !.number_of_abbr = "Anz.",
        !.meteoswiss = "MeteoSchweiz"]

Langs == {"en", "de"}

\* WORDS: the table of every language and the language now active
TranslatedWords(active_lang) ==
    [active_lang |-> active_lang,
     langs |-> [en |-> WordTable("FLEXPART"), de |-> WordTableDe]]

\* words.set_active_lang(lang)
set_active_lang(w, lang) == [w EXCEPT !.active_lang = lang]

\* the words as words.get(name) gives them: those of the active language
active_words(w) == w.langs[w.active_lang]

\* create_plot_config(setup, words, symbols, mdata) with the words table
\* as the object it is: the configuration returned and the table after
create_plot_config_words(w, lang, su) ==
    LET w2 == set_active_lang(w, lang)
    IN  [words |-> w2, config |-> create_plot_config(active_words(w2), su)]

\* (model, domain) pairs of fields, in the table and outside it
Models  == {"cosmo1", "cosmo2", "ifs", "cosmo7"}
Domains == {"auto", "ch", "japan"}

\* the groups of fields of one plot: one or two fields of one language
FieldSamples ==
    { <<"cosmo1", "auto">>, <<"cosmo2", "ch">>, <<"ifs", "auto">>,
      <<"ifs", "ch">>, <<"cosmo7", "auto">> }
FieldLists ==
    UNION { { <<Field(a[1], a[2], lang)>> : a \in FieldSamples }
            \cup { <<Field(a[1], a[2], lang), Field(b[1], b[2], lang)>> :
                      a \in FieldSamples, b \in FieldSamples } :
            lang \in Langs }

\* field_lst_lst: one or two groups
FieldListLists ==
    { <<g>> : g \in FieldLists }
    \cup { <<g, h>> : g \in FieldLists, h \in {<<f>> : f \in
              { Field(a[1], a[2], "en") : a \in FieldSamples }} }

\* the setup of the plots of plot_fields, and those of the calls of
\* create_plot_config
PlotSetup ==
    [input_variable |-> "concentration", integrate |-> FALSE,
     simulation_type |-> "deterministic", plot_variable |-> "auto",
     ens_variable |-> "other", ens_param_mem_min |-> IntNone, n_members |-> 0]
LangSetups ==
    { PlotSetup,
      [PlotSetup EXCEPT !.simulation_type = "ensemble",
                        !.ens_variable = "probability",
                        !.ens_param_mem_min = IntOf(10), !.n_members = 21] }

MaxConfigCalls == 3

InitFields ==
    /\ pc = "fields"
    /\ run = None /\ figs = <<>> /\ files = <<>> /\ yielded = <<>>
    /\ words \in { TranslatedWords(lang) : lang \in Langs }
    /\ LayoutIdle /\ LocIdle /\ TextIdle /\ LevelIdle /\ RenderIdle
    /\ BaselineIdle

\* create_map_conf(field)
CreateMapConf(model, domain, lang) ==
    /\ pc = "fields"
    /\ run' = [op |-> "create_map_conf", field |-> Field(model, domain, lang),
               res |-> create_map_conf(Field(model, domain, lang))]
    /\ pc' = "map_conf"
    /\ UNCHANGED <<figs, files, yielded, words, layout_vars, loc_vars,
                   text_vars, level_vars, render_vars, baseline_vars>>

\* create_plot_config(setup, WORDS, SYMBOLS, mdata), one call after another
CreatePlotConfigWords(lang, su) ==
    /\ pc \in {"fields", "configured"}
    /\ LET calls == IF pc = "fields" THEN <<>> ELSE run.calls
           r     == create_plot_config_words(words, lang, su)
       IN  /\ Len(calls) < MaxConfigCalls
           /\ run' = [op |-> "create_plot_config",
                      calls |-> Append(calls,
                          [lang |-> lang, setup |-> su, words |-> words,
                           config |-> r.config])]
           /\ words' = r.words
    /\ pc' = "configured"
    /\ UNCHANGED <<figs, files, yielded, layout_vars, loc_vars, text_vars,
                   level_vars, render_vars, baseline_vars>>

\* plot_fields(field_lst_lst, mdata_lst_lst, dry_run): the generator is
\* made; its body runs with the iteration
PlotFields(field_lst_lst, dry_run) ==
    /\ pc = "fields"
    /\ run' = [op |-> "plot_fields", field_lst_lst |-> field_lst_lst,
               dry_run |-> dry_run, i |-> 1, err |-> None]
    /\ pc' = "fields_loop"
    /\ UNCHANGED <<figs, files, yielded, words, layout_vars, loc_vars,
                   text_vars, level_vars, render_vars, baseline_vars>>

\* one turn of the loop of plot_fields: the map configurations of the
\* fields, then unless dry_run the plot configuration, the plot with its
\* figure, its boxes and markers and its saving; then the yield
PlotFieldsNext ==
    /\ pc = "fields_loop"
    /\ LET field_lst    == run.field_lst_lst[run.i]
           map_conf_lst == [k \in 1..Len(field_lst) |->
                               create_map_conf(field_lst[k])]
           failed       == \E k \in 1..Len(field_lst) :
                               map_conf_lst[k].err # None
           r            == create_plot_config_words(words, field_lst[1].lang,
                                                    PlotSetup)
           last         == run.i = Len(run.field_lst_lst)
       IN  IF failed
           THEN /\ run' = [run EXCEPT !.err = "Exception"]
                /\ pc' = "fields_failed"
                /\ UNCHANGED <<figs, yielded, words>>
           ELSE IF run.dry_run
           THEN /\ run' = [run EXCEPT !.i = @ + 1]
                /\ yielded' = Append(yielded, [i |-> run.i, plot |-> None])
                /\ pc' = IF last THEN "fields_done" ELSE "fields_loop"
                /\ UNCHANGED <<figs, words>>
           ELSE /\ run' = [run EXCEPT !.i = @ + 1]
                /\ words' = r.words
                /\ figs' = Append(figs, "created")
                /\ yielded' = Append(yielded,
                                     [i |-> run.i, plot |-> "BoxedPlot"])
                /\ pc' = IF last THEN "fields_done" ELSE "fields_loop"
    /\ UNCHANGED <<files, layout_vars, loc_vars, text_vars, level_vars,
                   render_vars, baseline_vars>>

NextFields ==
    \/ \E model \in Models, domain \in Domains, lang \in Langs :
          CreateMapConf(model, domain, lang)
    \/ \E lang \in Langs, su \in LangSetups : CreatePlotConfigWords(lang, su)
    \/ \E field_lst_lst \in FieldListLists, dry_run \in BOOLEAN :
          PlotFields(field_lst_lst, dry_run)
    \/ PlotFieldsNext

SpecFields == InitFields /\ [][NextFields]_vars

\* C23: create_map_conf returns a map configuration for the pairs
\* (cosmo1, auto), (cosmo2, auto), (cosmo1, ch), (cosmo2, ch), (ifs, auto)
\* and fails with the unknown-domain error for every other pair, without a
\* default configuration; in plot_fields this failure occurs before any
\* figure is created, also in a dry run.
MapConfTable ==
    { <<"cosmo1", "auto">>, <<"cosmo2", "auto">>, <<"cosmo1", "ch">>,
      <<"cosmo2", "ch">>, <<"ifs", "auto">> }

InTable(field) == <<field.model, field.domain>> \in MapConfTable

AllInTable(field_lst) == \A k \in 1..Len(field_lst) : InTable(field_lst[k])

MapConfLookedUp == pc = "map_conf"

LookupByTable ==
    MapConfLookedUp =>
       IF InTable(run.field)
       THEN /\ run.res.err = None
            /\ run.res.conf.lang = run.field.lang
            /\ run.res.conf.geo_res =
                  (IF run.field.model = "ifs" THEN "50m" ELSE "10m")
       ELSE run.res.err = "Exception"

FieldsFailed == pc = "fields_failed"

C23_Original ==
    /\ LookupByTable
    /\ FieldsFailed => figs = <<>>

\* C23 as amended: the failure occurs before the figure of the group of
\* the offending field is created; the figures of the groups before it
\* have been created (unless dry_run) and their paths yielded.
C23_FailsBeforeOwnFigure ==
    /\ LookupByTable
    /\ FieldsFailed =>
          /\ ~AllInTable(run.field_lst_lst[run.i])
          /\ Len(yielded) = run.i - 1
          /\ Len(figs) = (IF run.dry_run THEN 0 ELSE run.i - 1)
    /\ pc \in {"fields_loop", "fields_failed", "fields_done"} =>
          \A k \in 1..Len(yielded) :
             AllInTable(run.field_lst_lst[yielded[k].i])

C23_Witness ==
    /\ FieldsFailed
    /\ ~run.dry_run
    /\ run.i = 2
    /\ Len(figs) = 1

\* C24: create_plot_config is a pure function: a call leaves the words
\* table, its active language included, unchanged, and two calls with
\* equal arguments return equal configurations whatever calls with other
\* setups and languages happened in between.
Configured == pc = "configured"

C24_Original ==
    Configured =>
       LET calls == run.calls
       IN  /\ words = calls[Len(calls)].words
           /\ \A i, j \in 1..Len(calls) :
                 (calls[i].lang = calls[j].lang
                    /\ calls[i].setup = calls[j].setup)
                 => calls[i].config = calls[j].config

====
